---- MODULE Spec2Model ----
(***************************************************************************)
(* Generation-task orchestration layer of the chatbot:                     *)
(*   - the OpenAI image fallback chain (lib/openai-image-client.ts) and    *)
(*     the edit route in front of it (api/edit-image route),               *)
(*   - the WaveSpeed task poller (lib/wavespeed-client.ts), the client    *)
(*     call around it and the generate-image route,                        *)
(*   - the chat route's streaming response encoder, query classifier,     *)
(*     sentiment integration and history (chat route POST).                *)
(* Each subsystem has its own specification (SpecChain, SpecPoll,          *)
(* SpecWave, SpecRoutes, SpecStream, SpecEncode, SpecChat, SpecClassify,   *)
(* SpecHistory); the variables of the other subsystems stay at their idle  *)
(* values.                                                                 *)
(***************************************************************************)
EXTENDS Naturals, Integers, Sequences, FiniteSets, TLC

VARIABLES
  \* ---- image fallback chain -------------------------------------------
  op,          \* "none" | "generate" | "edit" | "variation"
  cpc,         \* position inside the image call
  reqSize,     \* size the caller asked for (route body / function option)
  reqQuality,  \* quality the caller asked for
  fnSize,      \* `size` inside the client function (after the route's actualSize)
  fnQuality,   \* `quality` inside the client function (after the route's gptQuality)
  calls,       \* provider calls issued so far: <<[model, size, quality]>>
  primaryErr,  \* error the first candidate failed with (NoErr if none)
  redl,        \* outcome of the re-download before the fallback
  cresult,     \* what the client function returned / threw
  resp,        \* the edit route's HTTP response
  openaiKey,   \* process.env.OPENAI_API_KEY is set
  reqImageUrl, \* body.imageUrl of the edit request: "none" | "missing" | "given"
  reqPrompt,   \* body.prompt of the edit request: "none" | "missing" | "empty" | "given"
  \* ---- WaveSpeed task poller ------------------------------------------
  ppc,         \* "idle" | "poll" | "sleep" | "done"
  maxAttempts, \* the attempt budget of this call
  i,           \* the loop counter of waitForTaskCompletion
  polls,       \* status requests issued
  responses,   \* what each status request came back with
  presult,     \* what waitForTaskCompletion returned / threw
  cancelled,   \* the invoking request was aborted by its client
  \* ---- WaveSpeed client call and the generate-image route --------------
  gpc,         \* "idle" | "submit" | "submitted" | "returned" | "responded"
  gfn,         \* "none" | "generateImageWithWaveSpeed" | "editImageWithWaveSpeed"
  wavespeedKey,\* process.env.WAVESPEED_API_KEY is set
  gprompt,     \* body.prompt of the generate request: "none" | "missing" | "empty" | "given"
  submits,     \* what each submit request came back with, in order
  requestId,   \* the id submitImageTask returned ("none" before)
  gout,        \* what the client function returned / threw
  gresp,       \* the generate-image route's HTTP response
  \* ---- chat streaming encoder -----------------------------------------
  spc,         \* "idle" | "streaming" | "closed" | "rejected"
  frames,      \* frames written to the response body, in order
  upstream,    \* fragments the completion stream has yielded so far
  \* ---- frame formatting on one input ----------------------------------
  epc,         \* "idle" | "text" | "error" | "done": the frame kind formatted
  einput,      \* the fragment text / the error message formatted
  eframe,      \* the frame produced
  \* ---- chat route: classification and sentiment integration ----------
  chpc,           \* "idle" | "lookup" | "compose" | "responded"
  content,        \* lastMessage.content
  fileMime,       \* kind of fileMimeType
  transcribed,    \* transcription.text is present
  query,          \* sentimentQuery
  lookup,         \* "none" | "skipped" | "ok" | "throws": the digest lookup
  messageContent, \* messageContent after the sentiment integration
  sent,           \* finalMessageContent passed to the completion call
  chatResp,       \* "none" | "400" | "error_frame" | "stream"
  \* ---- the classifier on one message --------------------------------
  dpc,            \* "idle" | "done"
  dmessage,       \* the message detectSentimentQuery is applied to
  dquery,         \* what it returned
  \* ---- chat route: the history handed to the chat session -----------
  hpc,            \* "idle" | "done"
  hmessages,      \* body.messages
  history,        \* the history passed to startChat
  hresp           \* "none" | "400" | "accepted"

chainVars  == <<op, cpc, reqSize, reqQuality, fnSize, fnQuality, calls, primaryErr, redl, cresult, resp,
                openaiKey, reqImageUrl, reqPrompt>>
bodyVars   == <<openaiKey, reqImageUrl, reqPrompt>>
pollVars   == <<ppc, maxAttempts, i, polls, responses, presult, cancelled>>
streamVars == <<spc, frames, upstream>>
encVars    == <<epc, einput, eframe>>
chatVars   == <<chpc, content, fileMime, transcribed, query, lookup, messageContent, sent, chatResp>>
classifyVars == <<dpc, dmessage, dquery>>
waveVars   == <<gpc, gfn, wavespeedKey, gprompt, submits, requestId, gout, gresp>>
historyVars == <<hpc, hmessages, history, hresp>>
vars       == <<chainVars, pollVars, streamVars, encVars, chatVars, classifyVars, waveVars, historyVars>>

nonChainVars    == <<pollVars, streamVars, encVars, chatVars, classifyVars, waveVars, historyVars>>
nonPollVars     == <<chainVars, streamVars, encVars, chatVars, classifyVars, waveVars, historyVars>>
nonStreamVars   == <<chainVars, pollVars, encVars, chatVars, classifyVars, waveVars, historyVars>>
nonEncVars      == <<chainVars, pollVars, streamVars, chatVars, classifyVars, waveVars, historyVars>>
nonChatVars     == <<chainVars, pollVars, streamVars, encVars, classifyVars, waveVars, historyVars>>
nonClassifyVars == <<chainVars, pollVars, streamVars, encVars, chatVars, waveVars, historyVars>>
nonWaveVars     == <<chainVars, pollVars, streamVars, encVars, chatVars, classifyVars, historyVars>>
nonHistoryVars  == <<chainVars, pollVars, streamVars, encVars, chatVars, classifyVars, waveVars>>

Last(s) == s[Len(s)]

(***************************************************************************)
(* Image fallback chain: lib/openai-image-client.ts                        *)
(***************************************************************************)

\* Substrings the code looks for in error.message.
MsgTokens ==
  {"invalid_model", "model_not_found", "safety system",
   "invalid_request_error", "rate_limit_exceeded"}

\* Largest number of those substrings one error message contains here.
MaxTokens == 2

\* Errors a provider call can fail with: the tokens its message contains,
\* its code and its type.
ApiErrors ==
  [msg  : {m \in SUBSET MsgTokens : Cardinality(m) <= MaxTokens},
   code : {"none", "moderation_blocked"},
   type : {"none", "image_generation_user_error"}]

NoErr == [msg |-> {"<no error>"}, code |-> "none", type |-> "none"]

\* new Error(`Failed to fetch image: ${status}`) and a rejected fetch().
FetchNotOkErr  == [msg |-> {"Failed to fetch image"}, code |-> "none", type |-> "none"]
FetchRejectErr == [msg |-> {"fetch failed"}, code |-> "none", type |-> "none"]

\* error.message?.includes('invalid_model') || error.message?.includes('model_not_found')
isModelUnavailable(e) ==
  "invalid_model" \in e.msg \/ "model_not_found" \in e.msg

\* error.message?.includes('safety system') || error.code === 'moderation_blocked'
\*   || error.type === 'image_generation_user_error'
isContentRejected(e) ==
  \/ "safety system" \in e.msg
  \/ e.code = "moderation_blocked"
  \/ e.type = "image_generation_user_error"

\* error.message?.includes('invalid_request_error')  (the edit route's test)
isInvalidParameters(e) == "invalid_request_error" \in e.msg

\* error.message?.includes('rate_limit_exceeded')  (the edit route's test)
isRateLimited(e) == "rate_limit_exceeded" \in e.msg

PrimaryModel == "gpt-image-1"

FallbackModel(o) == IF o = "generate" THEN "dall-e-3" ELSE "dall-e-2"

ShouldFallbackOnAnyError(o, e) == TRUE

ShouldFallbackOnlyInvalidModel(o, e) ==
  IF o = "edit" /\ isContentRejected(e)
  THEN FALSE
  ELSE "invalid_model" \in e.msg

\* The catch block of each function: TRUE when it goes on to the fallback.
\* Only editImageWithGPTImage1 tests for a moderation error first.
ShouldFallback(o, e) ==
  IF o = "edit" /\ isContentRejected(e)
  THEN FALSE
  ELSE isModelUnavailable(e)

\* ---- parameters -----------------------------------------------------

\* validSizes of the edit route; also the `size` type of the three functions.
GptSizes == {"1024x1024", "1536x1024", "1024x1536"}

\* Sizes a caller of the edit route can put in the body (the chat UI's
\* settings offer the 1792 ones).
RouteSizes == GptSizes \cup {"1792x1024", "512x512"}

\* quality values of the functions' option type
GptQualities == {"low", "medium", "high"}

\* quality values a caller of the edit route can put in the body
RouteQualities == {"low", "medium", "standard", "high", "hd"}

\* validSizes.includes(size) ? size : '1024x1024'
actualSize(size) == IF size \in GptSizes THEN size ELSE "1024x1024"

\* let gptQuality = 'medium'; if standard -> medium; else if hd -> high
gptQuality(q) == IF q = "hd" THEN "high" ELSE "medium"

\* quality === 'high' ? 'hd' : 'standard'
sdkQuality(q) == IF q = "high" THEN "hd" ELSE "standard"

\* size === '1536x1024' || size === '1024x1536' ? '1024x1024' : size
dalle2Size(size) ==
  IF size = "1536x1024" \/ size = "1024x1536" THEN "1024x1024" ELSE size

\* The request parameters each function puts in the call to the first candidate.
PrimaryCall(o, size, q) ==
  [model   |-> PrimaryModel,
   size    |-> size,
   quality |-> IF o = "generate" THEN sdkQuality(q) ELSE "unset"]

\* The request parameters each function puts in the call to the fallback.
FallbackCall(o, size, q) ==
  [model   |-> FallbackModel(o),
   size    |-> IF o = "generate" THEN size ELSE dalle2Size(size),
   quality |-> IF o = "generate" THEN sdkQuality(q) ELSE "unset"]

\* capabilities.quality of the edit route's GET handler (gpt-image-1).
GptQualitySet == {"low", "medium", "high"}

\* Capability descriptors of the two fallback models: the sizes and quality
\* levels the provider accepts for them (dall-e-2 is square only, which is
\* why the code collapses the non-square sizes for it).
Dalle2Sizes == {"256x256", "512x512", "1024x1024"}
Dalle3Sizes == {"1024x1024", "1792x1024", "1024x1792"}
Dalle2Qualities == {"standard"}
Dalle3Qualities == {"standard", "hd"}

SupportedSizes(m) ==
  CASE m = "gpt-image-1" -> GptSizes
    [] m = "dall-e-2"    -> Dalle2Sizes
    [] m = "dall-e-3"    -> Dalle3Sizes

SupportedQualities(m) ==
  CASE m = "gpt-image-1" -> GptQualitySet
    [] m = "dall-e-2"    -> Dalle2Qualities
    [] m = "dall-e-3"    -> Dalle3Qualities

\* No response sent yet by the edit route.
\* What a request body can carry in imageUrl and in prompt.
BodyImageUrls == {"missing", "given"}
BodyPrompts == {"missing", "empty", "given"}

\* JavaScript's !x on a body field: undefined and "" are falsy.
isFalsy(x) == x \in {"missing", "empty"}

NoResponse == [status |-> 0, error |-> "none", model |-> <<>>, note |-> "none", size |-> "none"]

\* NextResponse.json({ error, details }, { status }) of the validation steps
rejection(status, error) ==
  [status |-> status, error |-> error, model |-> <<>>, note |-> "none", size |-> "none"]

NoResult == [kind |-> "none", model |-> "none", err |-> NoErr]
Success(m) == [kind |-> "success", model |-> m, err |-> NoErr]
Thrown(e)  == [kind |-> "error", model |-> "none", err |-> e]

ChainIdle ==
  /\ op = "none" /\ cpc = "idle"
  /\ reqSize = "none" /\ reqQuality = "none"
  /\ fnSize = "none" /\ fnQuality = "none"
  /\ calls = <<>> /\ primaryErr = NoErr /\ redl = "none"
  /\ cresult = NoResult
  /\ resp = NoResponse
  /\ openaiKey = TRUE /\ reqImageUrl = "none" /\ reqPrompt = "none"

\* generateImageWithGPTImage1(prompt, {size, quality}) is called.
CallGenerate ==
  /\ cpc = "idle"
  /\ \E s \in GptSizes, q \in GptQualities :
       /\ op' = "generate"
       /\ reqSize' = s /\ reqQuality' = q
       /\ fnSize' = s /\ fnQuality' = q
  /\ cpc' = "primary"
  /\ UNCHANGED <<calls, primaryErr, redl, cresult>>
  /\ UNCHANGED <<resp, bodyVars>>
  /\ UNCHANGED nonChainVars

\* createImageVariationGPT1(imageUrl, {size}) is called.
CallVariation ==
  /\ cpc = "idle"
  /\ \E s \in GptSizes :
       /\ op' = "variation"
       /\ reqSize' = s /\ fnSize' = s
  /\ reqQuality' = "none" /\ fnQuality' = "none"
  /\ cpc' = "download"
  /\ UNCHANGED <<calls, primaryErr, redl, cresult>>
  /\ UNCHANGED <<resp, bodyVars>>
  /\ UNCHANGED nonChainVars

\* POST of the edit route with an image URL and a prompt: the route maps
\* quality and size, then calls smartEditWithGPTImage1, which passes them on
\* to editImageWithGPTImage1.
PostEdit ==
  /\ cpc = "idle"
  /\ \E k \in BOOLEAN, u \in BodyImageUrls, p \in BodyPrompts, s \in RouteSizes, q \in RouteQualities :
       /\ op' = "edit"
       /\ openaiKey' = k /\ reqImageUrl' = u /\ reqPrompt' = p
       /\ reqSize' = s /\ reqQuality' = q
       /\ IF ~k
          THEN \* if (!process.env.OPENAI_API_KEY)
               /\ resp' = rejection(500, "OpenAI API key not configured")
               /\ cpc' = "rejected"
               /\ UNCHANGED <<fnSize, fnQuality>>
          ELSE IF isFalsy(u)
          THEN \* if (!imageUrl)
               /\ resp' = rejection(400, "Image URL is required")
               /\ cpc' = "rejected"
               /\ UNCHANGED <<fnSize, fnQuality>>
          ELSE IF isFalsy(p)
          THEN \* if (!prompt)
               /\ resp' = rejection(400, "Edit prompt is required")
               /\ cpc' = "rejected"
               /\ UNCHANGED <<fnSize, fnQuality>>
          ELSE /\ fnSize' = actualSize(s) /\ fnQuality' = gptQuality(q)
               /\ cpc' = "download"
               /\ UNCHANGED resp
  /\ UNCHANGED <<calls, primaryErr, redl, cresult>>
  /\ UNCHANGED nonChainVars

\* try block of edit / variation: fetch(imageUrl) (and the mask, for edit)
\* before the first candidate is called.  A failure is thrown inside the
\* try, so it goes through the same catch as a provider error.
Download ==
  /\ cpc = "download"
  /\ \E r \in {"ok", "not_ok", "reject"} :
       IF r = "ok"
       THEN /\ cpc' = "primary"
            /\ UNCHANGED cresult
       ELSE LET e == IF r = "not_ok" THEN FetchNotOkErr ELSE FetchRejectErr
            IN  \* neither a moderation nor a model error: rethrown
                /\ cpc' = "done"
                /\ cresult' = Thrown(e)
  /\ UNCHANGED <<op, reqSize, reqQuality, fnSize, fnQuality, calls, primaryErr, redl>>
  /\ UNCHANGED <<resp, bodyVars>>
  /\ UNCHANGED nonChainVars

\* The call to the first candidate and, when it throws, the catch block.
AttemptPrimary ==
  /\ cpc = "primary"
  /\ calls' = Append(calls, PrimaryCall(op, fnSize, fnQuality))
  /\ \/ /\ cresult' = Success(PrimaryModel)
        /\ cpc' = "done"
        /\ UNCHANGED primaryErr
     \/ \E e \in ApiErrors :
          /\ primaryErr' = e
          /\ IF ShouldFallback(op, e)
             THEN /\ cpc' = IF op = "generate" THEN "fallback" ELSE "redownload"
                  /\ UNCHANGED cresult
             ELSE /\ cpc' = "done"
                  /\ cresult' = Thrown(e)
  /\ UNCHANGED <<op, reqSize, reqQuality, fnSize, fnQuality, redl>>
  /\ UNCHANGED <<resp, bodyVars>>
  /\ UNCHANGED nonChainVars

\* Fallback branch of edit / variation: the image (and the mask) is fetched
\* again.  The response's ok flag is not tested here; only a rejected
\* fetch ends the call, and it does so before the fallback is called.
Redownload ==
  /\ cpc = "redownload"
  /\ \E r \in {"ok", "reject"} :
       /\ redl' = r
       /\ IF r = "ok"
          THEN cpc' = "fallback" /\ UNCHANGED cresult
          ELSE cpc' = "done" /\ cresult' = Thrown(FetchRejectErr)
  /\ UNCHANGED <<op, reqSize, reqQuality, fnSize, fnQuality, calls, primaryErr>>
  /\ UNCHANGED <<resp, bodyVars>>
  /\ UNCHANGED nonChainVars

\* The call to the fallback candidate; its error, if any, is not caught.
AttemptFallback ==
  /\ cpc = "fallback"
  /\ calls' = Append(calls, FallbackCall(op, fnSize, fnQuality))
  /\ \/ cresult' = Success(FallbackModel(op))
     \/ \E e \in ApiErrors : cresult' = Thrown(e)
  /\ cpc' = "done"
  /\ UNCHANGED <<op, reqSize, reqQuality, fnSize, fnQuality, primaryErr, redl>>
  /\ UNCHANGED <<resp, bodyVars>>
  /\ UNCHANGED nonChainVars

\* ---- the edit route's response ---------------------------------------

\* The `model` string of the object a client function returns:
\* 'gpt-image-1', 'dall-e-2 (fallback)', 'dall-e-3 (fallback)', as its words.
resultModel(r) ==
  IF r.model = PrimaryModel THEN <<"gpt-image-1">> ELSE <<r.model, "(fallback)">>

noteNever(label) == "none"

\* result.model?.includes('fallback') ? 'Using fallback model ...' : undefined
note(label) ==
  IF \E k \in 1..Len(label) : label[k] = "(fallback)"
  THEN "Using fallback model due to GPT-Image-1 availability"
  ELSE "none"

\* The inner catch of the edit route: the tests on the error, in order.
errorResponse(e) ==
  IF "invalid_request_error" \in e.msg
  THEN [status |-> 400, error |-> "Invalid request", model |-> <<>>, note |-> "none", size |-> "none"]
  ELSE IF "rate_limit_exceeded" \in e.msg
  THEN [status |-> 429, error |-> "Rate limit exceeded", model |-> <<>>, note |-> "none", size |-> "none"]
  ELSE IF isContentRejected(e)
  THEN [status |-> 400, error |-> "Content not allowed", model |-> <<>>, note |-> "none", size |-> "none"]
  ELSE IF "model_not_found" \in e.msg
  THEN [status |-> 400, error |-> "Model not available", model |-> <<>>, note |-> "none", size |-> "none"]
  ELSE [status |-> 500, error |-> "Failed to edit image", model |-> <<>>, note |-> "none", size |-> "none"]

\* NextResponse.json({success: true, ..., metadata: {model, size, note}}):
\* size is the size of the request body.
successResponse(r, size) ==
  [status |-> 200, error |-> "none", model |-> resultModel(r), note |-> note(resultModel(r)),
   size |-> size]

\* The edit route after smartEditWithGPTImage1 returned or threw.
EditRespond ==
  /\ op = "edit"
  /\ cpc = "done"
  /\ resp = NoResponse
  /\ resp' = IF cresult.kind = "success"
             THEN successResponse(cresult, reqSize)
             ELSE errorResponse(cresult.err)
  /\ UNCHANGED <<op, cpc, reqSize, reqQuality, fnSize, fnQuality, calls, primaryErr, redl, cresult>>
  /\ UNCHANGED bodyVars
  /\ UNCHANGED nonChainVars

(***************************************************************************)
(* WaveSpeed task poller: waitForTaskCompletion, lib/wavespeed-client.ts   *)
(***************************************************************************)

\* Largest attempt budget explored (the code's default is 600).
MaxBudget == 4

\* What one status request can come back with.  "http_error" is a non-OK
\* HTTP status (the code throws inside the try), "fetch_reject" a rejected
\* fetch(); the others are parsed bodies with data.status, data.outputs[0]
\* and data.error.
PollResponses ==
  {[kind |-> "status", status |-> "processing", out |-> "", error |-> ""],
   [kind |-> "status", status |-> "completed",  out |-> "", error |-> ""],
   [kind |-> "status", status |-> "completed",  out |-> "u1", error |-> ""],
   [kind |-> "status", status |-> "completed",  out |-> "u2", error |-> ""],
   [kind |-> "status", status |-> "failed",     out |-> "", error |-> ""],
   [kind |-> "status", status |-> "failed",     out |-> "", error |-> "nsfw"],
   [kind |-> "http_error",   status |-> "", out |-> "", error |-> ""],
   [kind |-> "fetch_reject", status |-> "", out |-> "", error |-> ""]}

isNetworkFailure(r) == r.kind \in {"http_error", "fetch_reject"}

isCompletedStatusMisspelt(r) == r.kind = "status" /\ r.status = "complete" /\ r.out # ""

isCompletedIgnoringOutput(r) == r.kind = "status" /\ r.status = "completed"

\* status === "completed" && result.data.outputs?.[0]
isCompleted(r) == r.kind = "status" /\ r.status = "completed" /\ r.out # ""

\* status === "failed"
isFailed(r) == r.kind = "status" /\ r.status = "failed"

PollNone == [kind |-> "none", value |-> "", err |-> ""]
PollReturned(u) == [kind |-> "success", value |-> u, err |-> ""]
PollThrew(m) == [kind |-> "error", value |-> "", err |-> m]

TimedOutMsg == "Task timed out after 60 seconds"

\* `Task failed: ${result.data.error || 'Unknown error'}`
TaskFailedMsg(r) == IF r.error = "" THEN "Task failed: Unknown error" ELSE "Task failed: nsfw"

\* `Failed to get result: ${response.status} - ${error}` / the fetch's own error
NetworkMsg(r) == IF r.kind = "http_error" THEN "Failed to get result" ELSE "fetch failed"

\* The error thrown inside the try for response r.
ThrownInTry(r) == IF isFailed(r) THEN TaskFailedMsg(r) ELSE NetworkMsg(r)

isLastAttemptAlways(k, m) == TRUE

\* i === maxAttempts - 1
isLastAttempt(k, m) == k = m - 1

LoopContinuesOffByOne(k, m) == k <= m

\* the for loop's condition, i < maxAttempts
LoopContinues(k, m) == k < m

PollIdle ==
  /\ ppc = "idle" /\ maxAttempts = 0 /\ i = 0 /\ polls = 0
  /\ responses = <<>> /\ cancelled = FALSE
  /\ presult = PollNone

\* waitForTaskCompletion(requestId, maxAttempts) is entered.
StartPolling ==
  /\ ppc = "idle"
  /\ \E m \in 1..MaxBudget : maxAttempts' = m
  /\ i' = 0
  /\ ppc' = "poll"
  /\ UNCHANGED <<polls, responses, presult, cancelled>>
  /\ UNCHANGED nonPollVars

\* One iteration of the loop up to its await of the timer: the status
\* request, the tests on its answer, and the catch block.
Poll ==
  /\ ppc = "poll"
  /\ \E r \in PollResponses :
       /\ polls' = polls + 1
       /\ responses' = Append(responses, r)
       /\ IF ~isNetworkFailure(r) /\ isCompleted(r)
          THEN \* return result.data.outputs[0]
               /\ ppc' = "done"
               /\ presult' = PollReturned(r.out)
          ELSE IF isNetworkFailure(r) \/ isFailed(r)
          THEN \* thrown inside the try, so the catch block decides
               IF isLastAttempt(i, maxAttempts)
               THEN /\ ppc' = "done"
                    /\ presult' = PollThrew(ThrownInTry(r))
               ELSE /\ ppc' = "sleep"
                    /\ UNCHANGED presult
          ELSE \* still processing, wait before next attempt
               /\ ppc' = "sleep"
               /\ UNCHANGED presult
  /\ UNCHANGED <<maxAttempts, i, cancelled>>
  /\ UNCHANGED nonPollVars

\* The interval timer fires: i++, then the loop condition; leaving the loop
\* reaches the throw of the timeout error.
Sleep ==
  /\ ppc = "sleep"
  /\ i' = i + 1
  /\ IF LoopContinues(i + 1, maxAttempts)
     THEN /\ ppc' = "poll"
          /\ UNCHANGED presult
     ELSE /\ ppc' = "done"
          /\ presult' = PollThrew(TimedOutMsg)
  /\ UNCHANGED <<maxAttempts, polls, responses, cancelled>>
  /\ UNCHANGED nonPollVars

\* The client of the invoking request goes away while the poller runs.
\* waitForTaskCompletion takes no abort signal and reads no such state.
Cancel ==
  /\ ppc \in {"poll", "sleep"}
  /\ ~cancelled
  /\ cancelled' = TRUE
  /\ UNCHANGED <<ppc, maxAttempts, i, polls, responses, presult>>
  /\ UNCHANGED nonPollVars

(***************************************************************************)
(* WaveSpeed client call (submit, then wait) and the generate-image route  *)
(***************************************************************************)

\* What the submit request can come back with.  ok says response.ok, body
\* says what responseText holds: a JSON body with data.id, a JSON error body
\* whose error or message field mentions 'parameter', a JSON error body
\* about the rate limit, or text that is not JSON.
SubmitResponses ==
  {[kind |-> "response", ok |-> TRUE,  body |-> "task",            id |-> "t1"],
   [kind |-> "response", ok |-> TRUE,  body |-> "task",            id |-> "t2"],
   [kind |-> "response", ok |-> TRUE,  body |-> "not_json",        id |-> "none"],
   [kind |-> "response", ok |-> FALSE, body |-> "parameter_error",   id |-> "none"],
   [kind |-> "response", ok |-> FALSE, body |-> "parameter_message", id |-> "none"],
   [kind |-> "response", ok |-> FALSE, body |-> "rate_limit",      id |-> "none"],
   [kind |-> "response", ok |-> FALSE, body |-> "not_json",        id |-> "none"],
   [kind |-> "fetch_reject", ok |-> FALSE, body |-> "none",        id |-> "none"]}

\* errorData.error?.includes('parameter') || errorData.message?.includes('parameter')
mentionsParameter(r) == r.body \in {"parameter_error", "parameter_message"}

InvalidParametersMsg == "Invalid parameters"
InvalidResponseMsg == "Invalid response from WaveSpeed API"

\* `Failed to submit task: ${response.status} - ${responseText}`
FailedToSubmitMsg(r) ==
  IF r.body = "rate_limit" THEN "Failed to submit task: rate limit"
  ELSE IF mentionsParameter(r) THEN "Failed to submit task: parameter"
  ELSE "Failed to submit task"

\* What the try block of the non-OK branch throws: the parse error of a body
\* that is not JSON, or the 'Invalid parameters' error.
ThrownInParse(r) ==
  IF r.body = "not_json" THEN "SyntaxError"
  ELSE IF mentionsParameter(r) THEN InvalidParametersMsg
  ELSE "none"

\* The error submitImageTask throws for response r ("none" if it returns
\* the id).  In the non-OK branch the catch block is empty, so whatever
\* ThrownInParse(r) is, control falls through to the throw after it.
submitImageTask(r) ==
  IF r.kind = "fetch_reject" THEN "fetch failed"
  ELSE IF ~r.ok THEN FailedToSubmitMsg(r)
  ELSE IF r.body = "not_json" THEN InvalidResponseMsg
  ELSE "none"

\* error.message?.includes(phrase) on the messages above
messageIncludes(m, phrase) ==
  CASE phrase = "rate limit"  -> m = "Failed to submit task: rate limit"
    [] phrase = "Task failed" -> m \in {"Task failed: Unknown error", "Task failed: nsfw"}
    [] phrase = "timed out"   -> m = TimedOutMsg
    [] OTHER -> FALSE

NoGenResponse == [status |-> 0, error |-> "none"]
genResponse(status, error) == [status |-> status, error |-> error]

\* The inner catch of the route.
generateErrorResponse(m) ==
  IF messageIncludes(m, "rate limit") THEN genResponse(429, "Rate limit exceeded")
  ELSE IF messageIncludes(m, "Task failed") THEN genResponse(400, "Generation failed")
  ELSE IF messageIncludes(m, "timed out") THEN genResponse(504, "Generation timeout")
  ELSE genResponse(500, "Failed to generate image")

WaveIdle ==
  /\ gpc = "idle" /\ gfn = "none" /\ wavespeedKey = TRUE /\ gprompt = "none"
  /\ submits = <<>> /\ requestId = "none"
  /\ gout = PollNone /\ gresp = NoGenResponse

PostGenerateCallsFirst ==
  /\ gpc = "idle"
  /\ \E k \in BOOLEAN, p \in BodyPrompts :
       /\ wavespeedKey' = k /\ gprompt' = p
       /\ IF ~k
          THEN /\ gresp' = genResponse(500, "WaveSpeed API key not configured")
               /\ gpc' = "responded"
               /\ UNCHANGED gfn
          ELSE /\ gfn' = "generateImageWithWaveSpeed"
               /\ gpc' = "submit"
               /\ UNCHANGED gresp
  /\ UNCHANGED <<submits, requestId, gout>>
  /\ UNCHANGED nonWaveVars

\* POST of the generate-image route up to its call of the client.
PostGenerate ==
  /\ gpc = "idle"
  /\ \E k \in BOOLEAN, p \in BodyPrompts :
       /\ wavespeedKey' = k /\ gprompt' = p
       /\ IF ~k
          THEN \* if (!process.env.WAVESPEED_API_KEY)
               /\ gresp' = genResponse(500, "WaveSpeed API key not configured")
               /\ gpc' = "responded"
               /\ UNCHANGED gfn
          ELSE IF isFalsy(p)
          THEN \* if (!prompt)
               /\ gresp' = genResponse(400, "Prompt is required")
               /\ gpc' = "responded"
               /\ UNCHANGED gfn
          ELSE /\ gfn' = "generateImageWithWaveSpeed"
               /\ gpc' = "submit"
               /\ UNCHANGED gresp
  /\ UNCHANGED <<submits, requestId, gout>>
  /\ UNCHANGED nonWaveVars

\* editImageWithWaveSpeed(imageUrl, prompt, options) is called.
CallEditWaveSpeed ==
  /\ gpc = "idle"
  /\ gfn' = "editImageWithWaveSpeed"
  /\ gpc' = "submit"
  /\ UNCHANGED <<wavespeedKey, gprompt, submits, requestId, gout, gresp>>
  /\ UNCHANGED nonWaveVars

SubmitPollsAnyway ==
  /\ gpc = "submit"
  /\ \E r \in SubmitResponses :
       /\ submits' = Append(submits, r)
       /\ requestId' = r.id
       /\ gpc' = "submitted"
       /\ UNCHANGED gout
  /\ UNCHANGED <<gfn, wavespeedKey, gprompt, gresp>>
  /\ UNCHANGED nonWaveVars

\* const requestId = await submitImageTask(...): one POST to the provider;
\* a throw of submitImageTask reaches the catch of the client function,
\* which rethrows it.
Submit ==
  /\ gpc = "submit"
  /\ \E r \in SubmitResponses :
       /\ submits' = Append(submits, r)
       /\ IF submitImageTask(r) = "none"
          THEN /\ requestId' = r.id
               /\ gpc' = "submitted"
               /\ UNCHANGED gout
          ELSE /\ gout' = PollThrew(submitImageTask(r))
               /\ gpc' = "returned"
               /\ UNCHANGED requestId
  /\ UNCHANGED <<gfn, wavespeedKey, gprompt, gresp>>
  /\ UNCHANGED nonWaveVars

\* await waitForTaskCompletion(requestId): the poller of the section above,
\* run on the id the submit returned.
WaitForTask == gpc = "submitted" /\ StartPolling
WavePoll == gpc = "submitted" /\ Poll
WaveSleep == gpc = "submitted" /\ Sleep

\* The client function returns { success, imageUrl, prompt, requestId }, or
\* its catch rethrows what waitForTaskCompletion threw.
WaveReturn ==
  /\ gpc = "submitted"
  /\ ppc = "done"
  /\ gout' = presult
  /\ gpc' = "returned"
  /\ UNCHANGED <<gfn, wavespeedKey, gprompt, submits, requestId, gresp>>
  /\ UNCHANGED nonWaveVars

\* The route answers: the success body, or the inner catch's mapping.
GenerateRespond ==
  /\ gpc = "returned"
  /\ gfn = "generateImageWithWaveSpeed"
  /\ gresp' = IF gout.kind = "success"
              THEN genResponse(200, "none")
              ELSE generateErrorResponse(gout.err)
  /\ gpc' = "responded"
  /\ UNCHANGED <<gfn, wavespeedKey, gprompt, submits, requestId, gout>>
  /\ UNCHANGED nonWaveVars

(***************************************************************************)
(* Chat route: the streaming response encoder of POST                      *)
(***************************************************************************)

\* Largest number of fragments one completion stream yields here.
MaxFrags == 3

\* A text is a sequence of characters; these are the ones the encoder
\* treats specially.
BSL == "\\"
QUO == "\""
LF  == "\n"
CR  == "\r"
TAB == "\t"

\* Fragments chunk.text() returns (between them, every special character).
Fragments == {<<>>, <<"a", LF>>, <<BSL, QUO>>, <<CR, TAB>>}

\* Messages of the errors the upstream (or the code before it) throws.
ErrMsgs == {<<"e">>, <<LF, QUO>>, <<BSL, CR>>}

\* What can be thrown: an Error with a message, or a value that is no Error.
Throwables == [isError : {TRUE}, message : ErrMsgs] \cup {[isError |-> FALSE, message |-> <<>>]}

\* String.prototype.replace(/c/g, rep): every occurrence of character c in s
\* replaced by the characters rep.
RECURSIVE ReplaceAll(_, _, _)
ReplaceAll(s, c, rep) ==
  IF s = <<>> THEN <<>>
  ELSE (IF Head(s) = c THEN rep ELSE <<Head(s)>>) \o ReplaceAll(Tail(s), c, rep)

escapedTextBackslashLast(text) ==
  LET s1 == ReplaceAll(text, QUO, <<BSL, QUO>>)
      s2 == ReplaceAll(s1, LF, <<BSL, "n">>)
      s3 == ReplaceAll(s2, CR, <<BSL, "r">>)
      s4 == ReplaceAll(s3, TAB, <<BSL, "t">>)
  IN  ReplaceAll(s4, BSL, <<BSL, BSL>>)

\* escapedText: the five replacements, in the code's order.
escapedText(text) ==
  LET s1 == ReplaceAll(text, BSL, <<BSL, BSL>>)
      s2 == ReplaceAll(s1, QUO, <<BSL, QUO>>)
      s3 == ReplaceAll(s2, LF, <<BSL, "n">>)
      s4 == ReplaceAll(s3, CR, <<BSL, "r">>)
  IN  ReplaceAll(s4, TAB, <<BSL, "t">>)

escapedErrorNewlineKept(msg) ==
  LET s1 == ReplaceAll(msg, BSL, <<BSL, BSL>>)
  IN  ReplaceAll(s1, QUO, <<BSL, QUO>>)

\* escapedError: the three replacements both catch blocks apply.
escapedError(msg) ==
  LET s1 == ReplaceAll(msg, BSL, <<BSL, BSL>>)
      s2 == ReplaceAll(s1, QUO, <<BSL, QUO>>)
  IN  ReplaceAll(s2, LF, <<BSL, "n">>)

\* error instanceof Error ? error.message : "Unknown error"
errorMessage(t) == IF t.isError THEN t.message ELSE <<"Unknown error">>

\* `0:"${escapedText}"\n`
TextDeltaFrame(text) == <<"0:", QUO>> \o escapedText(text) \o <<QUO, LF>>

\* `3:{"error":"${escapedError}"}\n`
ErrorFrame(t) == <<"3:", "{", "error:", QUO>> \o escapedError(errorMessage(t)) \o <<QUO, "}", LF>>

\* `d:{"finishReason":"stop"}\n`
DoneFrame == <<"d:", "{finishReason:stop}", LF>>

\* ---- the frame formats applied to one input --------------------------

\* Longest fragment / error message the formats are applied to.
MaxLen == 3

\* Characters of the inputs: the five the encoder escapes and ordinary ones
\* (among them the letter an escape sequence ends with).
Alphabet == {BSL, QUO, LF, CR, TAB, "a", "n"}

Texts == UNION {[1..k -> Alphabet] : k \in 0..MaxLen}

EncIdle ==
  /\ epc = "idle" /\ einput = <<>> /\ eframe = <<>>

\* const formatted = `0:"${escapedText}"\n` for one chunk text.
EncodeText ==
  /\ epc = "idle"
  /\ \E text \in Texts :
       /\ einput' = text
       /\ eframe' = TextDeltaFrame(text)
  /\ epc' = "text"
  /\ UNCHANGED nonEncVars

\* `3:{"error":"${escapedError}"}\n` for one thrown value.
EncodeError ==
  /\ epc = "idle"
  /\ \E t \in [isError : {TRUE}, message : Texts] \cup {[isError |-> FALSE, message |-> <<>>]} :
       /\ einput' = errorMessage(t)
       /\ eframe' = ErrorFrame(t)
  /\ epc' = "error"
  /\ UNCHANGED nonEncVars

\* `d:{"finishReason":"stop"}\n`
EncodeDone ==
  /\ epc = "idle"
  /\ eframe' = DoneFrame
  /\ epc' = "done"
  /\ UNCHANGED einput
  /\ UNCHANGED nonEncVars

StreamIdle ==
  /\ spc = "idle" /\ frames = <<>> /\ upstream = <<>>

\* POST up to the point where the response is returned: a 400 for a body
\* without a message list or without a last user message, the outer catch's
\* one-frame body when anything before the stream throws, else the stream.
ChatPost ==
  /\ spc = "idle"
  /\ \/ /\ spc' = "rejected"
        /\ UNCHANGED frames
     \/ \E t \in Throwables :
          /\ frames' = <<ErrorFrame(t)>>
          /\ spc' = "closed"
     \/ /\ spc' = "streaming"
        /\ UNCHANGED frames
  /\ UNCHANGED upstream
  /\ UNCHANGED nonStreamVars

StreamChunkSkipsEmpty ==
  /\ spc = "streaming"
  /\ Len(upstream) < MaxFrags
  /\ \E f \in Fragments :
       /\ upstream' = Append(upstream, f)
       /\ frames' = IF f = <<>> THEN frames ELSE Append(frames, TextDeltaFrame(f))
  /\ UNCHANGED spc
  /\ UNCHANGED nonStreamVars

\* The loop body of start(): one chunk arrives and is enqueued as a frame.
StreamChunk ==
  /\ spc = "streaming"
  /\ Len(upstream) < MaxFrags
  /\ \E f \in Fragments :
       /\ upstream' = Append(upstream, f)
       /\ frames' = Append(frames, TextDeltaFrame(f))
  /\ UNCHANGED spc
  /\ UNCHANGED nonStreamVars

\* The upstream ends: the done signal is enqueued, finally closes.
StreamEnd ==
  /\ spc = "streaming"
  /\ frames' = Append(frames, DoneFrame)
  /\ spc' = "closed"
  /\ UNCHANGED upstream
  /\ UNCHANGED nonStreamVars

StreamRaiseKeepsReading ==
  /\ spc = "streaming"
  /\ \E t \in Throwables : frames' = Append(frames, ErrorFrame(t))
  /\ UNCHANGED <<spc, upstream>>
  /\ UNCHANGED nonStreamVars

\* The upstream iterator or chunk.text() throws: the catch enqueues the
\* error signal, finally closes.
StreamRaise ==
  /\ spc = "streaming"
  /\ \E t \in Throwables : frames' = Append(frames, ErrorFrame(t))
  /\ spc' = "closed"
  /\ UNCHANGED upstream
  /\ UNCHANGED nonStreamVars

(***************************************************************************)
(* Chat route: query classification and sentiment integration              *)
(* (src/app/api/check-env/route.ts)                                        *)
(***************************************************************************)

\* Most phrases a message is made of.
MaxParts == 2
\* Longest entity name X in "How is X stock doing?".
MaxEntityLen == 2

UpperLetters == {"A", "B", "C", "D", "E", "F", "G", "H", "I", "J", "K", "L", "M", "N", "O", "P", "Q", "R", "S", "T", "U", "V", "W", "X", "Y", "Z"}
LowerLetters == {"a", "b", "c", "d", "e", "f", "g", "h", "i", "j", "k", "l", "m", "n", "o", "p", "q", "r", "s", "t", "u", "v", "w", "x", "y", "z"}

LowerOf == [c \in UpperLetters |->
  CASE c = "A" -> "a" []
    c = "B" -> "b" []
    c = "C" -> "c" []
    c = "D" -> "d" []
    c = "E" -> "e" []
    c = "F" -> "f" []
    c = "G" -> "g" []
    c = "H" -> "h" []
    c = "I" -> "i" []
    c = "J" -> "j" []
    c = "K" -> "k" []
    c = "L" -> "l" []
    c = "M" -> "m" []
    c = "N" -> "n" []
    c = "O" -> "o" []
    c = "P" -> "p" []
    c = "Q" -> "q" []
    c = "R" -> "r" []
    c = "S" -> "s" []
    c = "T" -> "t" []
    c = "U" -> "u" []
    c = "V" -> "v" []
    c = "W" -> "w" []
    c = "X" -> "x" []
    c = "Y" -> "y" []
    c = "Z" -> "z"]

UpperOf == [c \in LowerLetters |->
  CASE c = "a" -> "A" []
    c = "b" -> "B" []
    c = "c" -> "C" []
    c = "d" -> "D" []
    c = "e" -> "E" []
    c = "f" -> "F" []
    c = "g" -> "G" []
    c = "h" -> "H" []
    c = "i" -> "I" []
    c = "j" -> "J" []
    c = "k" -> "K" []
    c = "l" -> "L" []
    c = "m" -> "M" []
    c = "n" -> "N" []
    c = "o" -> "O" []
    c = "p" -> "P" []
    c = "q" -> "Q" []
    c = "r" -> "R" []
    c = "s" -> "S" []
    c = "t" -> "T" []
    c = "u" -> "U" []
    c = "v" -> "V" []
    c = "w" -> "W" []
    c = "x" -> "X" []
    c = "y" -> "Y" []
    c = "z" -> "Z"]

\* String.prototype.toLowerCase / toUpperCase on one character.
LowerCase(c) == IF c \in UpperLetters THEN LowerOf[c] ELSE c
UpperCase(c) == IF c \in LowerLetters THEN UpperOf[c] ELSE c

toLowerCase(s) == [k \in 1..Len(s) |-> LowerCase(s[k])]
toUpperCase(s) == [k \in 1..Len(s) |-> UpperCase(s[k])]

\* [a-z] in a message in lower case.
isLetter(c) == c \in LowerLetters
\* \s
isSpace(c) == c \in {" ", LF, CR, TAB}
\* What . does not match.
isLineBreak(c) == c \in {LF, CR}

\* A literal of a pattern occurs at position p of l. Under the i flag a
\* pattern is matched against the message letter case ignored: l is the
\* message in lower case, the groups are cut out of the message s itself.
occursAt(l, t, p) ==
  /\ p >= 1
  /\ p + Len(t) - 1 <= Len(l)
  /\ \A k \in 1..Len(t) : l[p + k - 1] = t[k]

\* lowerMessage.includes(t) / a pattern that is one literal.
includes(l, t) == \E p \in 1..Len(l) : occursAt(l, t, p)

\* Last position of the run of letters that starts at p, first position of
\* the run of letters that ends at b, last position of the run of white
\* space that starts at p.
RECURSIVE runEnd(_, _)
runEnd(l, p) == IF p < Len(l) /\ isLetter(l[p + 1]) THEN runEnd(l, p + 1) ELSE p

RECURSIVE runStart(_, _)
runStart(l, b) == IF b > 1 /\ isLetter(l[b - 1]) THEN runStart(l, b - 1) ELSE b

RECURSIVE spaceEnd(_, _)
spaceEnd(l, p) == IF p < Len(l) /\ isSpace(l[p + 1]) THEN spaceEnd(l, p + 1) ELSE p

\* .* can span positions a..b.
dotStar(l, a, b) == \A k \in a..b : ~isLineBreak(l[k])

Least(S) == CHOOSE x \in S : \A y \in S : x <= y
Greatest(S) == CHOOSE x \in S : \A y \in S : x >= y

\* The value of message.match(pattern): null, or the match with its group 1
\* (<<>> when the pattern has no group).
NoMatch == [found |-> FALSE, g1 |-> <<>>]
Match(g) == [found |-> TRUE, g1 |-> g]

\* /how is ([a-z]+) stock doing/i
stockPattern1(s, l) ==
  LET starts == {p \in 1..Len(l) :
                   /\ occursAt(l, <<"h", "o", "w", " ", "i", "s", " ">>, p)
                   /\ p + 7 <= Len(l)
                   /\ isLetter(l[p + 7])
                   /\ occursAt(l, <<" ", "s", "t", "o", "c", "k", " ", "d", "o", "i", "n", "g">>, runEnd(l, p + 7) + 1)}
  IN  IF starts = {} THEN NoMatch
      ELSE LET p == Least(starts) IN Match(SubSeq(s, p + 7, runEnd(l, p + 7)))

\* /what.*sentiment.*([a-z]+)/i : both .* are greedy, so the group is the one
\* letter furthest to the right that the rest of the pattern allows.
stockPattern2(s, l) ==
  LET last(q) == {r \in (q + 9)..Len(l) : isLetter(l[r]) /\ dotStar(l, q + 9, r - 1)}
      mid(p) == {q \in (p + 4)..Len(l) :
                   /\ occursAt(l, <<"s", "e", "n", "t", "i", "m", "e", "n", "t">>, q)
                   /\ dotStar(l, p + 4, q - 1)
                   /\ last(q) # {}}
      starts == {p \in 1..Len(l) : occursAt(l, <<"w", "h", "a", "t">>, p) /\ mid(p) # {}}
  IN  IF starts = {} THEN NoMatch
      ELSE LET p == Least(starts)
               q == Greatest(mid(p))
               r == Greatest(last(q))
           IN  Match(<<s[r]>>)

\* /([a-z]+) stock analysis/i
stockPattern3(s, l) ==
  LET ends == {b \in 1..Len(l) :
                 /\ isLetter(l[b])
                 /\ occursAt(l, <<" ", "s", "t", "o", "c", "k", " ", "a", "n", "a", "l", "y", "s", "i", "s">>, b + 1)}
  IN  IF ends = {} THEN NoMatch
      ELSE LET b == Least(ends) IN Match(SubSeq(s, runStart(l, b), b))

\* /analyze ([a-z]+)/i
stockPattern4(s, l) ==
  LET starts == {p \in 1..Len(l) :
                   /\ occursAt(l, <<"a", "n", "a", "l", "y", "z", "e", " ">>, p)
                   /\ p + 8 <= Len(l)
                   /\ isLetter(l[p + 8])}
  IN  IF starts = {} THEN NoMatch
      ELSE LET p == Least(starts) IN Match(SubSeq(s, p + 8, runEnd(l, p + 8)))

\* /([a-z]{2,5}) performance/i : the match starts at the leftmost position
\* from which two to five letters reach the blank.
stockPattern5(s, l) ==
  LET ends == {b \in 2..Len(l) :
                 /\ isLetter(l[b])
                 /\ isLetter(l[b - 1])
                 /\ occursAt(l, <<" ", "p", "e", "r", "f", "o", "r", "m", "a", "n", "c", "e">>, b + 1)}
  IN  IF ends = {} THEN NoMatch
      ELSE LET b == Least(ends)
               a == runStart(l, b)
           IN  Match(SubSeq(s, IF a > b - 4 THEN a ELSE b - 4, b))

\* (sector|industry) and (sector|industry|market) at position t.
sectorOrIndustry(l, t) == occursAt(l, <<"s", "e", "c", "t", "o", "r">>, t) \/ occursAt(l, <<"i", "n", "d", "u", "s", "t", "r", "y">>, t)
sectorIndustryOrMarket(l, t) == sectorOrIndustry(l, t) \/ occursAt(l, <<"m", "a", "r", "k", "e", "t">>, t)

\* /how is.*([a-z]+)\s+(sector|industry)/i : .* is greedy, so the group is
\* the one letter before the white space of the rightmost such place.
sectorPattern1(s, l) ==
  LET last(p) == {r \in (p + 6)..(Len(l) - 1) :
                    /\ isLetter(l[r])
                    /\ isSpace(l[r + 1])
                    /\ dotStar(l, p + 6, r - 1)
                    /\ \E t \in (r + 2)..(spaceEnd(l, r + 1) + 1) : sectorOrIndustry(l, t)}
      starts == {p \in 1..Len(l) : occursAt(l, <<"h", "o", "w", " ", "i", "s">>, p) /\ last(p) # {}}
  IN  IF starts = {} THEN NoMatch
      ELSE LET p == Least(starts)
               r == Greatest(last(p))
           IN  Match(<<s[r]>>)

\* The names of the second sector pattern, in the order of its alternation.
SectorNames == <<<<"t", "e", "c", "h", "n", "o", "l", "o", "g", "y">>,
  <<"h", "e", "a", "l", "t", "h", "c", "a", "r", "e">>,
  <<"f", "i", "n", "a", "n", "c", "e">>,
  <<"e", "n", "e", "r", "g", "y">>,
  <<"r", "e", "t", "a", "i", "l">>,
  <<"a", "u", "t", "o", "m", "o", "t", "i", "v", "e">>,
  <<"b", "a", "n", "k", "i", "n", "g">>,
  <<"p", "h", "a", "r", "m", "a", "c", "e", "u", "t", "i", "c", "a", "l">>,
  <<"t", "e", "c", "h">>,
  <<"f", "i", "n", "t", "e", "c", "h">>,
  <<"c", "r", "y", "p", "t", "o">>>>

\* /(technology|...|crypto)\s+(sector|industry|market)/i
sectorPattern2(s, l) ==
  LET ok(p, n) ==
        LET e == p + Len(SectorNames[n]) IN
        /\ occursAt(l, SectorNames[n], p)
        /\ e <= Len(l)
        /\ isSpace(l[e])
        /\ \E t \in (e + 1)..(spaceEnd(l, e) + 1) : sectorIndustryOrMarket(l, t)
      N == 1..Len(SectorNames)
      starts == {p \in 1..Len(l) : \E n \in N : ok(p, n)}
  IN  IF starts = {} THEN NoMatch
      ELSE LET p == Least(starts)
               n == Least({x \in N : ok(p, x)})
           IN  Match(SubSeq(s, p, p + Len(SectorNames[n]) - 1))

\* /([a-z]+)\s+sector\s+(doing|performance|analysis)/i
sectorPattern3(s, l) ==
  LET tail(u) ==
        /\ u <= Len(l)
        /\ isSpace(l[u])
        /\ \E v \in (u + 1)..(spaceEnd(l, u) + 1) :
             \/ occursAt(l, <<"d", "o", "i", "n", "g">>, v)
             \/ occursAt(l, <<"p", "e", "r", "f", "o", "r", "m", "a", "n", "c", "e">>, v)
             \/ occursAt(l, <<"a", "n", "a", "l", "y", "s", "i", "s">>, v)
      ends == {b \in 1..(Len(l) - 1) :
                 /\ isLetter(l[b])
                 /\ isSpace(l[b + 1])
                 /\ \E t \in (b + 2)..(spaceEnd(l, b + 1) + 1) :
                      occursAt(l, <<"s", "e", "c", "t", "o", "r">>, t) /\ tail(t + 6)}
  IN  IF ends = {} THEN NoMatch
      ELSE LET b == Least(ends) IN Match(SubSeq(s, runStart(l, b), b))

\* /latest news about/i, /recent news/i : no group.
newsPattern1(s, l) == IF includes(l, <<"l", "a", "t", "e", "s", "t", " ", "n", "e", "w", "s", " ", "a", "b", "o", "u", "t">>) THEN Match(<<>>) ELSE NoMatch
newsPattern2(s, l) == IF includes(l, <<"r", "e", "c", "e", "n", "t", " ", "n", "e", "w", "s">>) THEN Match(<<>>) ELSE NoMatch

\* /news on ([a-z]+)/i
newsPattern3(s, l) ==
  LET starts == {p \in 1..Len(l) :
                   /\ occursAt(l, <<"n", "e", "w", "s", " ", "o", "n", " ">>, p)
                   /\ p + 8 <= Len(l)
                   /\ isLetter(l[p + 8])}
  IN  IF starts = {} THEN NoMatch
      ELSE LET p == Least(starts) IN Match(SubSeq(s, p + 8, runEnd(l, p + 8)))

\* The for loops over a pattern list: the first pattern that matches.
stockMatch(s) ==
  LET l == toLowerCase(s)
      m1 == stockPattern1(s, l)
      m2 == stockPattern2(s, l)
      m3 == stockPattern3(s, l)
      m4 == stockPattern4(s, l)
  IN  IF m1.found THEN m1
      ELSE IF m2.found THEN m2
      ELSE IF m3.found THEN m3
      ELSE IF m4.found THEN m4
      ELSE stockPattern5(s, l)

sectorMatch(s) ==
  LET l == toLowerCase(s)
      m1 == sectorPattern1(s, l)
      m2 == sectorPattern2(s, l)
  IN  IF m1.found THEN m1
      ELSE IF m2.found THEN m2
      ELSE sectorPattern3(s, l)

\* marketPatterns.some(pattern => pattern.test(message))
marketMatch(s) ==
  LET l == toLowerCase(s) IN
  \/ includes(l, <<"m", "a", "r", "k", "e", "t", " ", "o", "v", "e", "r", "v", "i", "e", "w">>)
  \/ includes(l, <<"o", "v", "e", "r", "a", "l", "l", " ", "m", "a", "r", "k", "e", "t">>)
  \/ includes(l, <<"m", "a", "r", "k", "e", "t", " ", "s", "e", "n", "t", "i", "m", "e", "n", "t">>)
  \/ includes(l, <<"g", "e", "n", "e", "r", "a", "l", " ", "m", "a", "r", "k", "e", "t">>)

newsMatch(s) ==
  LET l == toLowerCase(s)
      m1 == newsPattern1(s, l)
      m2 == newsPattern2(s, l)
  IN  IF m1.found THEN m1
      ELSE IF m2.found THEN m2
      ELSE newsPattern3(s, l)

financialKeywords == {
  <<"s", "t", "o", "c", "k">>,
  <<"s", "e", "c", "t", "o", "r">>,
  <<"m", "a", "r", "k", "e", "t">>,
  <<"i", "n", "v", "e", "s", "t", "m", "e", "n", "t">>,
  <<"t", "r", "a", "d", "i", "n", "g">>,
  <<"b", "u", "l", "l">>,
  <<"b", "e", "a", "r">>,
  <<"s", "e", "n", "t", "i", "m", "e", "n", "t">>,
  <<"a", "n", "a", "l", "y", "s", "i", "s">>,
  <<"p", "e", "r", "f", "o", "r", "m", "a", "n", "c", "e">>,
  <<"e", "a", "r", "n", "i", "n", "g", "s">>,
  <<"r", "e", "v", "e", "n", "u", "e">>,
  <<"p", "r", "o", "f", "i", "t">>,
  <<"n", "a", "s", "d", "a", "q">>,
  <<"s", "p", "y">>,
  <<"d", "o", "w">>,
  <<"p", "o", "r", "t", "f", "o", "l", "i", "o">>,
  <<"f", "i", "n", "a", "n", "c", "e">>,
  <<"f", "i", "n", "a", "n", "c", "i", "a", "l">>}

\* financialKeywords.some(keyword => lowerMessage.includes(keyword))
hasFinancialKeyword(s) ==
  LET lowerMessage == toLowerCase(s) IN \E kw \in financialKeywords : includes(lowerMessage, kw)

NotFinancial == [isFinancialQuery |-> FALSE, queryType |-> "null", entities |-> <<>>]
Classified(t, es) == [isFinancialQuery |-> TRUE, queryType |-> t, entities |-> es]

detectSentimentQueryNoKeywordGate(message) ==
  LET st == stockMatch(message)
      sc == sectorMatch(message)
      nw == newsMatch(message)
  IN  IF st.found
      THEN Classified("stock", <<st.g1>>)
      ELSE IF sc.found
      THEN Classified("sector", <<sc.g1>>)
      ELSE IF marketMatch(message)
      THEN Classified("market", <<>>)
      ELSE IF nw.found
      THEN Classified("news", IF nw.g1 # <<>> THEN <<nw.g1>> ELSE <<>>)
      ELSE [isFinancialQuery |-> hasFinancialKeyword(message), queryType |-> "null", entities |-> <<>>]

detectSentimentQuerySectorFirst(message) ==
  LET st == stockMatch(message)
      sc == sectorMatch(message)
      nw == newsMatch(message)
  IN  IF ~hasFinancialKeyword(message) THEN NotFinancial
      ELSE IF sc.found
      THEN Classified("sector", <<sc.g1>>)
      ELSE IF st.found
      THEN Classified("stock", <<st.g1>>)
      ELSE IF marketMatch(message)
      THEN Classified("market", <<>>)
      ELSE IF nw.found
      THEN Classified("news", IF nw.g1 # <<>> THEN <<nw.g1>> ELSE <<>>)
      ELSE Classified("null", <<>>)

detectSentimentQueryOnLowerMessage(message) ==
  LET lowerMessage == toLowerCase(message)
      st == stockMatch(lowerMessage)
      sc == sectorMatch(lowerMessage)
      nw == newsMatch(lowerMessage)
  IN  IF ~hasFinancialKeyword(message) THEN NotFinancial
      ELSE IF st.found
      THEN Classified("stock", <<st.g1>>)
      ELSE IF sc.found
      THEN Classified("sector", <<sc.g1>>)
      ELSE IF marketMatch(lowerMessage)
      THEN Classified("market", <<>>)
      ELSE IF nw.found
      THEN Classified("news", IF nw.g1 # <<>> THEN <<nw.g1>> ELSE <<>>)
      ELSE Classified("null", <<>>)

\* detectSentimentQuery: the keyword gate, then the pattern groups in the
\* order stock, sector, market, news; the first group that matches decides.
detectSentimentQuery(message) ==
  LET st == stockMatch(message)
      sc == sectorMatch(message)
      nw == newsMatch(message)
  IN  IF ~hasFinancialKeyword(message) THEN NotFinancial
      ELSE IF st.found
      THEN Classified("stock", <<st.g1>>)
      ELSE IF sc.found
      THEN Classified("sector", <<sc.g1>>)
      ELSE IF marketMatch(message)
      THEN Classified("market", <<>>)
      ELSE IF nw.found
      THEN Classified("news", IF nw.g1 # <<>> THEN <<nw.g1>> ELSE <<>>)
      ELSE Classified("null", <<>>)

\* ---- the messages the handler is run on -------------------------------

\* Phrases of user messages: greetings, and wordings of each pattern group
\* with and without a financial keyword.
Phrases == {
  <<"h", "e", "l", "l", "o">>,
  <<"a", "n", "a", "l", "y", "z", "e", " ", "A", "A", "P", "L">>,
  <<"t", "e", "c", "h", " ", "s", "e", "c", "t", "o", "r">>,
  <<"m", "a", "r", "k", "e", "t", " ", "o", "v", "e", "r", "v", "i", "e", "w">>,
  <<"r", "e", "c", "e", "n", "t", " ", "n", "e", "w", "s">>,
  <<"n", "e", "w", "s", " ", "o", "n", " ", "t", "e", "s", "l", "a">>,
  <<"M", "S", "F", "T", " ", "p", "e", "r", "f", "o", "r", "m", "a", "n", "c", "e">>,
  <<"h", "o", "w", " ", "i", "s", " ", "e", "n", "e", "r", "g", "y", " ", "i", "n", "d", "u", "s", "t", "r", "y">>,
  <<"w", "h", "a", "t", " ", "s", "e", "n", "t", "i", "m", "e", "n", "t">>,
  <<"b", "u", "l", "l", "i", "s", "h">>,
  <<"t", "e", "s", "l", "a", " ", "s", "t", "o", "c", "k", " ", "a", "n", "a", "l", "y", "s", "i", "s">>,
  <<"l", "a", "t", "e", "s", "t", " ", "n", "e", "w", "s", " ", "a", "b", "o", "u", "t">>}

RECURSIVE JoinPhrases(_)
JoinPhrases(ps) ==
  IF ps = <<>> THEN <<>>
  ELSE IF Len(ps) = 1 THEN ps[1]
  ELSE ps[1] \o <<" ">> \o JoinPhrases(Tail(ps))

\* "How is X stock doing?"
HowIsStockDoing(X) == <<"H", "o", "w", " ", "i", "s", " ">> \o X \o <<" ", "s", "t", "o", "c", "k", " ", "d", "o", "i", "n", "g", "?">>

\* The names X: runs of letters of either case.
EntityNames == UNION {[1..k -> {"A", "a", "z"}] : k \in 1..MaxEntityLen}

\* The messages the classifier is applied to: empty, blank, some phrases,
\* or the stock question.
Messages ==
  {<<>>, <<" ">>}
  \cup {JoinPhrases(ps) : ps \in UNION {[1..k -> Phrases] : k \in 1..MaxParts}}
  \cup {HowIsStockDoing(X) : X \in EntityNames \cup {<<"A", "A", "P", "L">>}}

ClassifyIdle ==
  /\ dpc = "idle" /\ dmessage = <<>> /\ dquery = NotFinancial

\* detectSentimentQuery applied to one message.
Classify ==
  /\ dpc = "idle"
  /\ \E m \in Messages :
       /\ dmessage' = m
       /\ dquery' = detectSentimentQuery(m)
  /\ dpc' = "done"
  /\ UNCHANGED nonClassifyVars

\* lastMessage.content in the requests to the chat route: empty, blank, and
\* one message for each way the sentiment integration can go (not financial;
\* a keyword but no pattern; stock, sector and news with an entity; market;
\* news without an entity; a request to analyze).
Contents == {
  <<>>,
  <<" ">>,
  <<"h", "e", "l", "l", "o">>,
  <<"b", "u", "l", "l", "i", "s", "h">>,
  <<"H", "o", "w", " ", "i", "s", " ", "A", "A", "P", "L", " ", "s", "t", "o", "c", "k", " ", "d", "o", "i", "n", "g", "?">>,
  <<"t", "e", "c", "h", " ", "s", "e", "c", "t", "o", "r">>,
  <<"m", "a", "r", "k", "e", "t", " ", "o", "v", "e", "r", "v", "i", "e", "w">>,
  <<"n", "e", "w", "s", " ", "o", "n", " ", "t", "e", "s", "l", "a", " ", "s", "t", "o", "c", "k">>,
  <<"r", "e", "c", "e", "n", "t", " ", "n", "e", "w", "s", " ", "m", "a", "r", "k", "e", "t">>,
  <<"l", "a", "t", "e", "s", "t", " ", "n", "e", "w", "s", " ", "a", "b", "o", "u", "t", " ", "t", "h", "e", " ", "s", "t", "o", "c", "k", " ", "m", "a", "r", "k", "e", "t">>,
  <<"a", "n", "a", "l", "y", "z", "e", " ", "A", "A", "P", "L">>,
  <<"a", "n", "a", "l", "y", "z", "e", " ", "t", "e", "c", "h", " ", "s", "e", "c", "t", "o", "r">>}

\* fileMimeType: absent, audio/..., video/..., image/..., anything else.
FileMimeTypes == {"none", "audio", "video", "image", "other"}

\* ---- the message sent to the model, as its blocks ---------------------

Block(kind, text, qtype, entity) ==
  [kind |-> kind, text |-> text, qtype |-> qtype, entity |-> entity]

\* lastMessage.content
UserBlock(userText) == Block("user", userText, "null", <<>>)

\* `${query?.toUpperCase()}` in the headings of the digest.
digestLabel(q) ==
  IF q.queryType = "market" THEN <<>>
  ELSE IF q.entities = <<>> THEN <<"undefined">>
  ELSE toUpperCase(q.entities[1])

\* "\n\nCONTEXT DATA FROM SENTIMENT ANALYSIS:\n" + formatSentimentDataForAI(...) + ...
DigestBlock(q) == Block("digest", <<>>, q.queryType, digestLabel(q))

\* The fixed texts of the handler: the "audio", "video" and "image"
\* instructions, the "video_coverage" request, the "transcription".
FixedBlock(kind) == Block(kind, <<>>, "null", <<>>)

\* String.prototype.trim
RECURSIVE trim(_)
trim(s) ==
  IF s # <<>> /\ isSpace(Head(s)) THEN trim(Tail(s))
  ELSE IF s # <<>> /\ isSpace(s[Len(s)]) THEN trim(SubSeq(s, 1, Len(s) - 1))
  ELSE s

\* The media instructions: a file without user text replaces the message
\* by an instruction; a video with a request to analyze rebuilds it from
\* lastMessage.content.
withMediaInstruction(mc, userText, mime) ==
  IF mime # "none" /\ trim(userText) = <<>>
  THEN IF mime = "audio" THEN <<FixedBlock("audio")>>
       ELSE IF mime = "video" THEN <<FixedBlock("video")>>
       ELSE IF mime = "image" THEN <<FixedBlock("image")>>
       ELSE mc
  ELSE IF mime = "video" /\ includes(toLowerCase(trim(userText)), <<"a", "n", "a", "l", "y", "z", "e">>)
  THEN <<UserBlock(userText), FixedBlock("video_coverage")>>
  ELSE mc

\* finalMessageContent
finalMessageContent(mc, userText, mime, hasTranscription) ==
  LET m == withMediaInstruction(mc, userText, mime) IN
  IF hasTranscription /\ mime \in {"video", "audio"} THEN Append(m, FixedBlock("transcription")) ELSE m

NotSent == <<>>

ChatIdle ==
  /\ chpc = "idle"
  /\ content = <<>>
  /\ fileMime = "none"
  /\ transcribed = FALSE
  /\ query = NotFinancial
  /\ lookup = "none"
  /\ messageContent = <<>>
  /\ sent = NotSent
  /\ chatResp = "none"

\* POST from the parse of the request to the classification of the last
\* message: 400 for a body without a message list or without a last user
\* message, the outer catch when a step before throws.
ChatReceive ==
  /\ chpc = "idle"
  /\ \/ /\ chatResp' = "400"
        /\ chpc' = "responded"
        /\ UNCHANGED <<content, fileMime, transcribed, query, messageContent>>
     \/ /\ chatResp' = "error_frame"
        /\ chpc' = "responded"
        /\ UNCHANGED <<content, fileMime, transcribed, query, messageContent>>
     \/ \E c \in Contents :
          LET sentimentQuery == detectSentimentQuery(c) IN
          \E mime \in FileMimeTypes : \E tr \in BOOLEAN :
            /\ content' = c
            /\ fileMime' = mime
            /\ transcribed' = tr
            /\ messageContent' = <<UserBlock(c)>>
            /\ query' = sentimentQuery
            /\ chpc' = IF sentimentQuery.isFinancialQuery /\ sentimentQuery.queryType # "null"
                       THEN "lookup" ELSE "compose"
            /\ UNCHANGED chatResp
  /\ UNCHANGED <<lookup, sent>>
  /\ UNCHANGED nonChatVars

ChatLookupThrows ==
  /\ chpc = "lookup"
  /\ IF query.queryType \in {"stock", "sector", "news"} /\ Len(query.entities) = 0
     THEN /\ lookup' = "skipped"
          /\ chpc' = "compose"
          /\ UNCHANGED <<messageContent, chatResp>>
     ELSE \/ /\ lookup' = "ok"
             /\ messageContent' = Append(messageContent, DigestBlock(query))
             /\ chpc' = "compose"
             /\ UNCHANGED chatResp
          \/ /\ lookup' = "throws"
             /\ chatResp' = "error_frame"
             /\ chpc' = "responded"
             /\ UNCHANGED messageContent
  /\ UNCHANGED <<content, fileMime, transcribed, query, sent>>
  /\ UNCHANGED nonChatVars

\* The sentiment integration: the lookup of the switch (made for stock,
\* sector and news only with an entity), the digest appended to the message;
\* the catch logs a failure of the lookup or of the formatting.
ChatLookup ==
  /\ chpc = "lookup"
  /\ IF query.queryType \in {"stock", "sector", "news"} /\ Len(query.entities) = 0
     THEN /\ lookup' = "skipped"
          /\ UNCHANGED messageContent
     ELSE \/ /\ lookup' = "ok"
             /\ messageContent' = Append(messageContent, DigestBlock(query))
          \/ /\ lookup' = "throws"
             /\ UNCHANGED messageContent
  /\ chpc' = "compose"
  /\ UNCHANGED <<content, fileMime, transcribed, query, sent, chatResp>>
  /\ UNCHANGED nonChatVars

\* The media instructions, the transcription, and the completion call
\* chat.sendMessageStream, which resolves (the stream is returned) or
\* rejects (outer catch).
ChatSend ==
  /\ chpc = "compose"
  /\ sent' = finalMessageContent(messageContent, content, fileMime, transcribed)
  /\ \/ chatResp' = "stream"
     \/ chatResp' = "error_frame"
  /\ chpc' = "responded"
  /\ UNCHANGED <<content, fileMime, transcribed, query, lookup, messageContent>>
  /\ UNCHANGED nonChatVars

(***************************************************************************)
(* Chat route: the history handed to the chat session                      *)
(***************************************************************************)

\* Longest message list explored.
MaxMessages == 4

\* A message of the request body: its role, and whether its id is
\* "welcome-message" (the client's greeting, an assistant message).
ChatMessages ==
  {[role |-> "user", welcome |-> FALSE],
   [role |-> "assistant", welcome |-> FALSE],
   [role |-> "assistant", welcome |-> TRUE],
   [role |-> "system", welcome |-> FALSE]}

MessageLists == UNION {[1..n -> ChatMessages] : n \in 0..MaxMessages}

\* if (history.length > 0 && history[0].role !== "user") history.shift()
shiftIfNotUser(h) == IF Len(h) > 0 /\ h[1].role # "user" THEN Tail(h) ELSE h

\* messages.filter(...).slice(0, -1).map(...), then the single shift
historyOf(ms) ==
  LET \* (m) => m.role !== "system" && m.id !== "welcome-message"
      filtered == SelectSeq(ms, LAMBDA m : m.role # "system" /\ ~m.welcome)
      \* .slice(0, -1)
      sliced == IF filtered = <<>> THEN <<>> ELSE SubSeq(filtered, 1, Len(filtered) - 1)
      \* role: m.role === "user" ? "user" : "model"
      mapped == [k \in 1..Len(sliced) |->
                   [role |-> IF sliced[k].role = "user" THEN "user" ELSE "model"]]
  IN  shiftIfNotUser(mapped)

HistoryIdle == hpc = "idle" /\ hmessages = <<>> /\ history = <<>> /\ hresp = "none"

\* POST from the test of the last message to the call of startChat.
BuildHistory ==
  /\ hpc = "idle"
  /\ \E ms \in MessageLists :
       /\ hmessages' = ms
       /\ IF ms = <<>> \/ Last(ms).role # "user"
          THEN \* "No user message found"
               /\ hresp' = "400"
               /\ UNCHANGED history
          ELSE /\ hresp' = "accepted"
               /\ history' = historyOf(ms)
  /\ hpc' = "done"
  /\ UNCHANGED nonHistoryVars

(***************************************************************************)
(* Properties of the image fallback chain (checked under SpecChain)        *)
(***************************************************************************)

\* The first candidate was called and failed with a message that contains
\* 'invalid_model' or 'model_not_found'.
PrimaryFailedUnavailable ==
  /\ primaryErr # NoErr
  /\ ("invalid_model" \in primaryErr.msg \/ "model_not_found" \in primaryErr.msg)

\* The first candidate was called and failed with a moderation error.
PrimaryFailedRejected ==
  /\ primaryErr # NoErr
  /\ \/ "safety system" \in primaryErr.msg
     \/ primaryErr.code = "moderation_blocked"
     \/ primaryErr.type = "image_generation_user_error"

PrimaryFailedInvalidParams ==
  /\ primaryErr # NoErr
  /\ "invalid_request_error" \in primaryErr.msg

CountCalls(m) == Cardinality({j \in 1..Len(calls) : calls[j].model = m})

ChainModels == {"gpt-image-1", "dall-e-2", "dall-e-3"}

\* The calls of a finished chain that went to the fallback: first candidate
\* once, then the operation's fallback once.
CalledBothInOrder ==
  /\ Len(calls) = 2
  /\ calls[1].model = "gpt-image-1"
  /\ calls[2].model = (IF op = "generate" THEN "dall-e-3" ELSE "dall-e-2")

\* C1 as stated: whenever the first candidate fails with a model-unavailable
\* error, the fallback is attempted exactly once and the first candidate is
\* never attempted again in the call.
C1_UnavailableAlwaysAdvances ==
  /\ \A m \in ChainModels : CountCalls(m) <= 1
  /\ (cpc = "done" /\ PrimaryFailedUnavailable) => CalledBothInOrder

\* C1 amended: no candidate is ever attempted twice in a call; when the
\* first candidate fails with a model-unavailable error that (for edit) is
\* not also a moderation error, the call goes on towards the fallback, and
\* the fallback is attempted exactly once unless fetching the source image
\* again, which precedes it in edit and variation, fails.
C1_UnavailableAdvancesOnce ==
  /\ \A m \in ChainModels : CountCalls(m) <= 1
  /\ (PrimaryFailedUnavailable /\ ~(op = "edit" /\ PrimaryFailedRejected)) =>
       /\ cpc \in {"redownload", "fallback", "done"}
       /\ cpc = "redownload" => (Len(calls) = 1 /\ op # "generate")
       /\ cpc = "fallback" => Len(calls) = 1
       /\ cpc = "done" =>
            IF redl = "reject"
            THEN Len(calls) = 1 /\ cresult = Thrown(FetchRejectErr)
            ELSE CalledBothInOrder

C1_Witness ==
  /\ cpc = "done" /\ op = "variation"
  /\ primaryErr.msg = {"model_not_found"}
  /\ CalledBothInOrder
  /\ cresult = Success("dall-e-2")

\* C2: a moderation or invalid-parameters error of a candidate is returned
\* to the caller as it is and no later candidate is attempted, whatever
\* else its message contains.
C2_RejectionNeverAdvances ==
  (PrimaryFailedRejected \/ PrimaryFailedInvalidParams) =>
    /\ cpc = "done"
    /\ Len(calls) = 1
    /\ cresult = Thrown(primaryErr)

\* C3: the fallback is attempted only after a model-unavailable failure of
\* the first candidate; any other failure (rate limit, transient, failed
\* download) is thrown to the caller and ends the call without a further
\* candidate.
C3_OnlyUnavailableAdvances ==
  /\ (Len(calls) >= 2 \/ cpc \in {"redownload", "fallback"}) => PrimaryFailedUnavailable
  /\ (primaryErr # NoErr /\ ~PrimaryFailedUnavailable) =>
       /\ cpc = "done"
       /\ Len(calls) = 1
       /\ cresult = Thrown(primaryErr)
  /\ (cpc = "done" /\ calls = <<>>) => cresult \in {Thrown(FetchNotOkErr), Thrown(FetchRejectErr)}

C3_Witness ==
  /\ cpc = "done"
  /\ primaryErr.msg = {"rate_limit_exceeded"}
  /\ Len(calls) = 1
  /\ cresult = Thrown(primaryErr)

\* C5: the size and the quality sent to a candidate are within that
\* candidate's supported sets, for every call of every chain.
C5_SentWithinCapability ==
  \A j \in 1..Len(calls) :
    /\ calls[j].size \in SupportedSizes(calls[j].model)
    /\ calls[j].quality # "unset" => calls[j].quality \in SupportedQualities(calls[j].model)

\* Both candidates of the edit chain were called and both failed with an
\* error whose message carries a model-unavailable marker and no marker of
\* another kind.
OnlyUnavailableMarkers(e) ==
  /\ e.msg # {}
  /\ e.msg \subseteq {"invalid_model", "model_not_found"}
  /\ e.code = "none" /\ e.type = "none"

EditChainExhausted ==
  /\ op = "edit"
  /\ Len(calls) = 2
  /\ cresult.kind = "error"
  /\ OnlyUnavailableMarkers(primaryErr)
  /\ OnlyUnavailableMarkers(cresult.err)

\* C11: when every candidate of the edit chain fails with a model-unavailable
\* error ('invalid_model' or 'model_not_found'), the edit route answers with
\* the 'Model not available' outcome, not with the generic failure.
C11_ExhaustedChainReported ==
  (EditChainExhausted /\ resp # NoResponse) =>
    /\ resp.status = 400
    /\ resp.error = "Model not available"

\* C12: a successful edit response names the candidate that produced the
\* image and carries the fallback note exactly when that candidate is not
\* the first one of the chain.
C12_ResponseNamesCandidate ==
  (op = "edit" /\ resp # NoResponse /\ cresult.kind = "success") =>
    /\ resp.status = 200
    /\ resp.model[1] = Last(calls).model
    /\ IF Len(calls) = 1
       THEN resp.model = <<"gpt-image-1">> /\ resp.note = "none"
       ELSE /\ resp.model = <<"dall-e-2", "(fallback)">>
            /\ resp.note = "Using fallback model due to GPT-Image-1 availability"

C12_Witness ==
  /\ op = "edit"
  /\ Len(calls) = 2
  /\ resp.status = 200
  /\ resp.model = <<"dall-e-2", "(fallback)">>
  /\ resp.note # "none"

\* C22: whenever the size used for the candidate that produced the image
\* differs from the size the caller requested, the successful response
\* reports the requested size and, next to it, the size actually used.
C22_BothSizesReported ==
  (op = "edit" /\ resp.status = 200 /\ Last(calls).size # reqSize) =>
    /\ resp.size = reqSize
    /\ "usedSize" \in DOMAIN resp
    /\ resp.usedSize = Last(calls).size

\* The ordering of quality levels: low < medium/standard < high/hd.
QualityLevel(q) ==
  IF q = "low" THEN 1
  ELSE IF q \in {"medium", "standard"} THEN 2
  ELSE 3

\* C21: quality normalization respects low < medium/standard < high/hd: the
\* level handed on is never above the level the caller asked for (by the
\* edit route to the client function, by generate to the candidate), and
\* caller values of the same level are mapped to the same level.
C21_QualityNeverRaised ==
  /\ (op = "edit" /\ cpc \notin {"idle", "rejected"}) =>
        /\ QualityLevel(fnQuality) <= QualityLevel(reqQuality)
        /\ QualityLevel(reqQuality) = 3 => QualityLevel(fnQuality) = 3
  /\ (op = "generate" /\ calls # <<>>) =>
        \A k \in 1..Len(calls) : QualityLevel(calls[k].quality) <= QualityLevel(reqQuality)

(***************************************************************************)
(* Properties of the task poller (checked under SpecPoll)                  *)
(***************************************************************************)

ReportsDone(r) == r.kind = "status" /\ r.status = "completed" /\ r.out # ""
ReportsFailed(r) == r.kind = "status" /\ r.status = "failed"
ReportsInProgress(r) == r.kind = "status" /\ r.status = "processing"
NetworkLevel(r) == r.kind = "http_error" \/ r.kind = "fetch_reject"

\* No status request so far was answered with a terminal status.
NoTerminalReport ==
  \A j \in 1..Len(responses) : ~ReportsDone(responses[j]) /\ ~ReportsFailed(responses[j])

\* C6: at most maxAttempts status requests are ever issued; when no answer
\* reports a terminal status the poller ends after exactly maxAttempts of
\* them with an error, which is the timeout error unless the last request
\* itself failed at the network level.
C6_TimeoutAfterBudget ==
  /\ polls <= maxAttempts
  /\ (ppc = "done" /\ NoTerminalReport) =>
       /\ polls = maxAttempts
       /\ presult.kind = "error"
       /\ ~NetworkLevel(Last(responses)) => presult = PollThrew("Task timed out after 60 seconds")

C6_Witness ==
  /\ ppc = "done"
  /\ maxAttempts = 3
  /\ polls = 3
  /\ \A j \in 1..Len(responses) : ReportsInProgress(responses[j])
  /\ presult = PollThrew("Task timed out after 60 seconds")

\* C7: a status request answered with status 'failed' is the last one of
\* the call, on whichever attempt it arrives: the poller is done and has
\* thrown the failure with the provider's error detail.
C7_FailedEndsPolling ==
  \A j \in 1..Len(responses) :
    ReportsFailed(responses[j]) =>
      /\ j = Len(responses)
      /\ ppc = "done"
      /\ presult.kind = "error"
      /\ presult.err = (IF responses[j].error = "" THEN "Task failed: Unknown error"
                        ELSE "Task failed: nsfw")

\* C8: for every k below the budget, k in-progress answers followed by a
\* 'completed' answer with an output end the poller at request k+1 with
\* that output.
C8_CompletesAtFirstDone ==
  \A k \in 0..(maxAttempts - 1) :
    ( /\ Len(responses) = k + 1
      /\ \A j \in 1..k : ReportsInProgress(responses[j])
      /\ ReportsDone(responses[k + 1]) )
    => /\ ppc = "done"
       /\ polls = k + 1
       /\ presult = PollReturned(responses[k + 1].out)

C8_Witness ==
  /\ Len(responses) = 4
  /\ \A j \in 1..3 : ReportsInProgress(responses[j])
  /\ responses[4].status = "completed" /\ responses[4].out = "u2"
  /\ presult = PollReturned("u2")
  /\ polls = 4

\* C9: a status request that fails at the network level on an attempt
\* other than the last leaves the poller waiting one interval, after which
\* it polls again; on the last attempt it ends the poller, which throws
\* that error.
C9_NetworkFailureRecovers ==
  [][ /\ (polls' = polls + 1 /\ NetworkLevel(Last(responses'))) =>
           IF i < maxAttempts - 1
           THEN ppc' = "sleep" /\ presult' = PollNone
           ELSE /\ ppc' = "done"
                /\ presult'.kind = "error"
                /\ presult'.err = (IF Last(responses').kind = "http_error"
                                   THEN "Failed to get result" ELSE "fetch failed")
      /\ (ppc = "sleep" /\ ppc' # "sleep" /\ i < maxAttempts - 1) =>
           (ppc' = "poll" /\ i' = i + 1 /\ polls' = polls)
    ]_vars

C9_Witness ==
  /\ Len(responses) >= 2
  /\ NetworkLevel(responses[1])
  /\ NetworkLevel(Last(responses))
  /\ ppc = "done"
  /\ presult.kind = "error"

\* C10: once the invoking request is cancelled the poller issues no further
\* status request.
C10_CancelStopsPolling ==
  [][cancelled => polls' = polls]_vars

(***************************************************************************)
(* Properties of the WaveSpeed client and of the request validation        *)
(* (checked under SpecPoll, SpecWave and SpecRoutes)                       *)
(***************************************************************************)

CompletedWithoutOutput(r) == r.kind = "status" /\ r.status = "completed" /\ r.out = ""

\* C25: the poller never returns success with an empty or missing output.
\* A returned value is the non-empty first output of the last poll, whose
\* status is 'completed'; after a 'completed' response without an output
\* the poller goes on (it sleeps and polls again), and ends only by running
\* out of budget.
C25_NeverEmptySuccess ==
  /\ presult.kind = "success" =>
       /\ presult.value # ""
       /\ responses # <<>>
       /\ Last(responses).kind = "status"
       /\ Last(responses).status = "completed"
       /\ Last(responses).out = presult.value
  /\ (responses # <<>> /\ CompletedWithoutOutput(Last(responses))) =>
       \/ ppc \in {"sleep", "poll"} /\ presult = PollNone
       \/ ppc = "done" /\ presult = PollThrew(TimedOutMsg) /\ i >= maxAttempts

C25_Witness ==
  /\ ppc = "done"
  /\ presult.kind = "success"
  /\ \E k \in 1..(Len(responses) - 1) : CompletedWithoutOutput(responses[k])

GenerateResponded == gpc = "responded" /\ gfn = "generateImageWithWaveSpeed"

\* The poller ended in a Transient-class outcome: the budget ran out, or
\* the final attempt failed at the network level.
PollerTransient ==
  /\ ppc = "done"
  /\ presult.kind = "error"
  /\ \/ presult.err = "Task timed out after 60 seconds"
     \/ /\ i = maxAttempts - 1
        /\ Last(responses).kind \in {"http_error", "fetch_reject"}

\* C23: in the generate-image route, every Transient-class outcome of the
\* poller (budget exhausted, or a network-level poll error on the final
\* attempt) reaches the caller as HTTP 504 'Generation timeout'.
C23_TransientIsTimeout ==
  (GenerateResponded /\ PollerTransient) =>
    /\ gresp.status = 504
    /\ gresp.error = "Generation timeout"

SubmitMentionedParameter ==
  /\ submits # <<>>
  /\ Last(submits).kind = "response"
  /\ ~Last(submits).ok
  /\ Last(submits).body \in {"parameter_error", "parameter_message"}

\* C24: when the submit endpoint answers non-OK with a JSON body whose error
\* or message field mentions 'parameter', submitImageTask fails with the
\* dedicated 'Invalid parameters' error, not with the generic 'Failed to
\* submit task' error.
C24_InvalidParametersRaised ==
  (SubmitMentionedParameter /\ gpc \in {"returned", "responded"}) =>
    /\ ThrownInParse(Last(submits)) = "Invalid parameters"
    /\ gout.kind = "error"
    /\ gout.err = "Invalid parameters"

SubmitGaveId(r) == r.kind = "response" /\ r.ok /\ r.body = "task" /\ r.id # "none"

\* C26: one call of generateImageWithWaveSpeed or editImageWithWaveSpeed
\* issues exactly one submit; every status poll happens after that submit
\* returned a task id and uses that id; if the submit fails no poll is
\* issued; after a poller failure or timeout no second submit is made.
C26_OneSubmitThenPolls ==
  /\ Len(submits) <= 1
  /\ gpc \in {"submitted", "returned", "responded"} /\ gfn # "none" => Len(submits) = 1
  /\ (polls > 0 \/ ppc # "idle") =>
       /\ Len(submits) = 1
       /\ SubmitGaveId(submits[1])
       /\ requestId = submits[1].id
  /\ (submits # <<>> /\ ~SubmitGaveId(submits[1])) =>
       /\ polls = 0
       /\ ppc = "idle"
       /\ requestId = "none"

C26_Witness ==
  /\ gfn = "editImageWithWaveSpeed"
  /\ gpc = "returned"
  /\ gout.kind = "error"
  /\ polls >= 2
  /\ Len(submits) = 1

PromptAbsent(p) == p \in {"missing", "empty"}

GenerateWithoutPrompt == gpc # "idle" /\ gfn # "editImageWithWaveSpeed" /\ PromptAbsent(gprompt)

EditWithoutPromptOrImage ==
  op = "edit" /\ cpc # "idle" /\ (PromptAbsent(reqPrompt) \/ reqImageUrl = "missing")

NoWaveSpeedCall == submits = <<>> /\ polls = 0 /\ ppc = "idle" /\ gpc = "responded"

NoOpenAICall == calls = <<>> /\ redl = "none" /\ cpc = "rejected" /\ cresult.kind = "none"

\* C28 as stated: a generate or edit request with an empty or missing prompt
\* (for edit, also a missing image URL) is rejected with HTTP 400 before any
\* provider call.
C28_RejectedWith400 ==
  /\ GenerateWithoutPrompt => (gresp.status = 400 /\ NoWaveSpeedCall)
  /\ EditWithoutPromptOrImage => (resp.status = 400 /\ NoOpenAICall)

\* C28 amended: such a request is rejected before any provider call; the
\* rejection is HTTP 400 when the route's API key is configured, and the
\* HTTP 500 configuration error when it is not (the key is tested first).
C28_RejectedBeforeProvider ==
  /\ GenerateWithoutPrompt =>
       /\ NoWaveSpeedCall
       /\ gresp.status = IF wavespeedKey THEN 400 ELSE 500
  /\ EditWithoutPromptOrImage =>
       /\ NoOpenAICall
       /\ resp.status = IF openaiKey THEN 400 ELSE 500

C28_Witness ==
  /\ GenerateWithoutPrompt
  /\ wavespeedKey
  /\ gprompt = "empty"
  /\ gresp.status = 400

(***************************************************************************)
(* Properties of the streaming encoder (checked under SpecStream)          *)
(***************************************************************************)

IsTerminalFrame(fr) == fr[1] = "3:" \/ fr[1] = "d:"
IsTextDelta(fr) == fr[1] = "0:"

\* C4: a terminal frame (Error or Done) is always the last frame written,
\* so there is at most one and no TextDelta follows it; a finished body has
\* exactly one, after one TextDelta per fragment; a body that failed before
\* streaming started is a single Error frame.
C4_OneTerminalFrameLast ==
  /\ \A j \in 1..Len(frames) : IsTerminalFrame(frames[j]) => j = Len(frames)
  /\ \A j \in 1..Len(frames) : IsTerminalFrame(frames[j]) \/ IsTextDelta(frames[j])
  /\ spc = "streaming" => \A j \in 1..Len(frames) : IsTextDelta(frames[j])
  /\ spc = "closed" =>
       /\ Len(frames) = Len(upstream) + 1
       /\ IsTerminalFrame(Last(frames))
  /\ spc = "rejected" => frames = <<>>

C4_Witness ==
  /\ spc = "closed"
  /\ Len(upstream) = 2
  /\ Len(frames) = 3
  /\ Last(frames)[1] = "3:"

(***************************************************************************)
(* Properties of the frame formats (checked under SpecEncode, SpecStream)  *)
(***************************************************************************)

\* The reader's side of the TextDelta payload: a backslash and the character
\* after it stand for one character.
RECURSIVE unescape(_)
unescape(s) ==
  IF s = <<>> THEN <<>>
  ELSE IF Head(s) = BSL /\ Len(s) >= 2
  THEN LET c == s[2]
           d == IF c = "n" THEN LF
                ELSE IF c = "r" THEN CR
                ELSE IF c = "t" THEN TAB
                ELSE c
       IN  <<d>> \o unescape(Tail(Tail(s)))
  ELSE <<Head(s)>> \o unescape(Tail(s))

\* What stands between the opening and the closing quote of a TextDelta frame.
FramePayload(fr) == SubSeq(fr, 3, Len(fr) - 2)

\* C13: round trip of the TextDelta escaping: unescaping the payload of the
\* frame formatted for a fragment gives back the fragment exactly, for every
\* fragment over backslash, quote, newline, carriage return, tab and
\* ordinary characters.
C13_EscapeRoundTrip ==
  epc = "text" =>
    /\ Len(eframe) >= 4
    /\ eframe[1] = "0:" /\ eframe[2] = QUO
    /\ eframe[Len(eframe) - 1] = QUO
    /\ unescape(FramePayload(eframe)) = einput

C13_Witness ==
  /\ epc = "text"
  /\ einput = <<BSL, "n", LF>>
  /\ FramePayload(eframe) = <<BSL, BSL, "n", BSL, "n">>

NewlineCount(fr) == Cardinality({k \in 1..Len(fr) : fr[k] = LF})

\* C14: every formatted frame (TextDelta, Error or Done) contains exactly one
\* newline character and it is the frame's last character, whatever the
\* fragment or the error message contains.
C14_OneNewlineLast ==
  epc # "idle" =>
    /\ eframe # <<>>
    /\ Last(eframe) = LF
    /\ NewlineCount(eframe) = 1

C14_Witness ==
  /\ epc = "error"
  /\ einput = <<LF, QUO, LF>>
  /\ NewlineCount(eframe) = 1

\* C15: one TextDelta frame per upstream fragment, in upstream order: after n
\* fragments have arrived the first n frames are the TextDelta frames of
\* fragments 1..n, and no other TextDelta frame was written.
C15_OneFramePerFragment ==
  /\ Len(frames) >= Len(upstream)
  /\ \A j \in 1..Len(upstream) : frames[j] = TextDeltaFrame(upstream[j])
  /\ \A j \in 1..Len(frames) : j > Len(upstream) => ~IsTextDelta(frames[j])

C15_Witness ==
  /\ spc = "closed"
  /\ Len(upstream) >= 2
  /\ upstream[1] = <<>>
  /\ upstream[2] = <<"a", LF>>
  /\ frames[1] = <<"0:", QUO, QUO, LF>>
  /\ frames[2] = <<"0:", QUO, "a", BSL, "n", QUO, LF>>
  /\ Last(frames) = DoneFrame

ErrorPayload(fr) == SubSeq(fr, 5, Len(fr) - 3)

\* The five-entry table of a TextDelta fragment, character by character.
RECURSIVE escapeFive(_)
escapeFive(s) ==
  IF s = <<>> THEN <<>>
  ELSE LET c == Head(s)
           e == IF c = BSL THEN <<BSL, BSL>>
                ELSE IF c = QUO THEN <<BSL, QUO>>
                ELSE IF c = LF THEN <<BSL, "n">>
                ELSE IF c = CR THEN <<BSL, "r">>
                ELSE IF c = TAB THEN <<BSL, "t">>
                ELSE <<c>>
       IN  e \o escapeFive(Tail(s))

\* C27: an Error frame's message is escaped with the same table as a
\* TextDelta fragment (backslash, quote, newline, carriage return, tab), so
\* that unescaping the Error frame's payload gives back the original message.
C27_ErrorEscapedLikeText ==
  epc = "error" =>
    /\ ErrorPayload(eframe) = escapeFive(einput)
    /\ unescape(ErrorPayload(eframe)) = einput

(***************************************************************************)
(* Properties of the chat route's classification and sentiment integration *)
(* (checked under SpecClassify and SpecChat)                               *)
(***************************************************************************)

\* The classifier has been applied to dmessage.
HasClassified == dpc = "done"

\* One of the nineteen financial keywords occurs in the message, letter case
\* ignored.
KeywordOccurs(s) ==
  \E kw \in financialKeywords :
    \E p \in 1..(Len(s) - Len(kw) + 1) :
      \A k \in 1..Len(kw) : s[p + k - 1] \in {kw[k], UpperOf[kw[k]]}

\* C16: a message in which no financial keyword occurs is classified as not
\* financial, with no query type and no entity, even when it matches a
\* stock, sector, market or news pattern.
C16_NoKeywordNotFinancial ==
  (HasClassified /\ ~KeywordOccurs(dmessage)) =>
    /\ dquery.isFinancialQuery = FALSE
    /\ dquery.queryType = "null"
    /\ dquery.entities = <<>>

C16_Witness ==
  /\ HasClassified
  /\ dmessage = <<"a", "n", "a", "l", "y", "z", "e", " ", "A", "A", "P", "L">>
  /\ stockMatch(dmessage).found
  /\ ~KeywordOccurs(dmessage)
  /\ dquery.queryType = "null"

\* C17: for a financial message the pattern groups decide in the priority
\* stock, sector, market, news: the type is that of the first group with a
\* matching pattern, and the entities are those of that group's match only.
C17_GroupPriority ==
  (HasClassified /\ KeywordOccurs(dmessage)) =>
    /\ dquery.isFinancialQuery
    /\ IF stockMatch(dmessage).found
       THEN dquery.queryType = "stock" /\ dquery.entities = <<stockMatch(dmessage).g1>>
       ELSE IF sectorMatch(dmessage).found
       THEN dquery.queryType = "sector" /\ dquery.entities = <<sectorMatch(dmessage).g1>>
       ELSE IF marketMatch(dmessage)
       THEN dquery.queryType = "market" /\ dquery.entities = <<>>
       ELSE IF newsMatch(dmessage).found
       THEN /\ dquery.queryType = "news"
            /\ dquery.entities = IF newsMatch(dmessage).g1 = <<>> THEN <<>> ELSE <<newsMatch(dmessage).g1>>
       ELSE dquery.queryType = "null" /\ dquery.entities = <<>>

C17_Witness ==
  /\ HasClassified
  /\ dmessage = <<"a", "n", "a", "l", "y", "z", "e", " ", "A", "A", "P", "L", " ", "t", "e", "c", "h", " ", "s", "e", "c", "t", "o", "r">>
  /\ stockMatch(dmessage).found
  /\ sectorMatch(dmessage).found
  /\ dquery.queryType = "stock"
  /\ dquery.entities = <<<<"A", "A", "P", "L">>>>

\* The message is "How is X stock doing?" for the run of letters X.
IsStockQuestion(s, X) ==
  /\ X # <<>>
  /\ \A k \in 1..Len(X) : X[k] \in LowerLetters \cup UpperLetters
  /\ s = <<"H", "o", "w", " ", "i", "s", " ">> \o X \o <<" ", "s", "t", "o", "c", "k", " ", "d", "o", "i", "n", "g", "?">>

\* C18: "How is X stock doing?" with X a non-empty run of letters is
\* classified as financial, of type stock, with the single entity X in its
\* original letter case.
C18_StockQuestion ==
  HasClassified =>
    \A n \in 1..(Len(dmessage) - 7) :
      LET X == SubSeq(dmessage, 8, 7 + n) IN
      IsStockQuestion(dmessage, X) =>
        /\ dquery.isFinancialQuery
        /\ dquery.queryType = "stock"
        /\ dquery.entities = <<X>>

C18_Witness ==
  /\ HasClassified
  /\ dmessage = <<"H", "o", "w", " ", "i", "s", " ", "A", "A", "P", "L", " ", "s", "t", "o", "c", "k", " ", "d", "o", "i", "n", "g", "?">>
  /\ dquery = [isFinancialQuery |-> TRUE, queryType |-> "stock", entities |-> <<<<"A", "A", "P", "L">>>>]

HasDigest(mc) == \E k \in 1..Len(mc) : mc[k].kind = "digest"

\* C19: when the lookup or the formatting of the digest fails, the request
\* goes on: the completion call is made with the message without a digest,
\* starting with the user's own text, and the response is the stream unless
\* the completion call itself fails.
C19_LookupFailureSwallowed ==
  (lookup = "throws" /\ chpc = "responded") =>
    /\ sent # NotSent
    /\ ~HasDigest(sent)
    /\ sent[1].kind = "user" /\ sent[1].text = content
    /\ chatResp \in {"stream", "error_frame"}

C19_Witness ==
  /\ lookup = "throws"
  /\ chpc = "responded"
  /\ query.queryType = "market"
  /\ sent = <<[kind |-> "user", text |-> content, qtype |-> "null", entity |-> <<>>]>>
  /\ chatResp = "stream"

\* C20: whenever the message is classified financial with a query type and
\* the lookup does not fail, the message passed to the completion call
\* carries a digest block, for all four types, with or without an entity.
C20_DigestAlwaysAppended ==
  (/\ chpc = "responded"
   /\ sent # NotSent
   /\ query.isFinancialQuery
   /\ query.queryType # "null"
   /\ lookup # "throws") => HasDigest(sent)

IsPrefixOf(a, b) == Len(a) <= Len(b) /\ SubSeq(b, 1, Len(a)) = a

\* C30: once the sentiment digest block has been appended to the outgoing
\* message, the text sent to the completion call still contains it: the
\* media-instruction and transcription steps only add to the message.
C30_DigestSurvivesMedia ==
  (chpc = "responded" /\ sent # NotSent /\ HasDigest(messageContent)) =>
    /\ HasDigest(sent)
    /\ IsPrefixOf(messageContent, sent)

\* C29: for every accepted message list, the history handed to the chat
\* session is either empty or begins with a user-role entry, whatever the
\* order of roles in the incoming messages.
C29_HistoryStartsWithUser ==
  hresp = "accepted" => (history = <<>> \/ history[1].role = "user")

(***************************************************************************)
(* Specifications                                                          *)
(***************************************************************************)

InitChain == ChainIdle /\ PollIdle /\ StreamIdle /\ EncIdle /\ ChatIdle /\ ClassifyIdle /\ WaveIdle /\ HistoryIdle

NextChain ==
  \/ CallGenerate
  \/ CallVariation
  \/ PostEdit
  \/ Download
  \/ AttemptPrimary
  \/ Redownload
  \/ AttemptFallback
  \/ EditRespond

SpecChain == InitChain /\ [][NextChain]_vars

InitPoll == ChainIdle /\ PollIdle /\ StreamIdle /\ EncIdle /\ ChatIdle /\ ClassifyIdle /\ WaveIdle /\ HistoryIdle

NextPoll ==
  \/ StartPolling
  \/ Poll
  \/ Sleep
  \/ Cancel

SpecPoll == InitPoll /\ [][NextPoll]_vars

InitStream == ChainIdle /\ PollIdle /\ StreamIdle /\ EncIdle /\ ChatIdle /\ ClassifyIdle /\ WaveIdle /\ HistoryIdle

NextStream ==
  \/ ChatPost
  \/ StreamChunk
  \/ StreamEnd
  \/ StreamRaise

SpecStream == InitStream /\ [][NextStream]_vars

InitEncode == ChainIdle /\ PollIdle /\ StreamIdle /\ EncIdle /\ ChatIdle /\ ClassifyIdle /\ WaveIdle /\ HistoryIdle

NextEncode ==
  \/ EncodeText
  \/ EncodeError
  \/ EncodeDone

SpecEncode == InitEncode /\ [][NextEncode]_vars

InitChat == ChainIdle /\ PollIdle /\ StreamIdle /\ EncIdle /\ ChatIdle /\ ClassifyIdle /\ WaveIdle /\ HistoryIdle

NextChat ==
  \/ ChatReceive
  \/ ChatLookup
  \/ ChatSend

SpecChat == InitChat /\ [][NextChat]_vars

InitClassify == ChainIdle /\ PollIdle /\ StreamIdle /\ EncIdle /\ ChatIdle /\ ClassifyIdle /\ WaveIdle /\ HistoryIdle

NextClassify ==
  \/ Classify

SpecClassify == InitClassify /\ [][NextClassify]_vars

InitWave == ChainIdle /\ PollIdle /\ StreamIdle /\ EncIdle /\ ChatIdle /\ ClassifyIdle /\ WaveIdle /\ HistoryIdle

NextWave ==
  \/ PostGenerate
  \/ CallEditWaveSpeed
  \/ Submit
  \/ WaitForTask
  \/ WavePoll
  \/ WaveSleep
  \/ WaveReturn
  \/ GenerateRespond

InitHistory == ChainIdle /\ PollIdle /\ StreamIdle /\ EncIdle /\ ChatIdle /\ ClassifyIdle /\ WaveIdle /\ HistoryIdle

NextHistory ==
  \/ BuildHistory

SpecHistory == InitHistory /\ [][NextHistory]_vars

SpecWave == InitWave /\ [][NextWave]_vars

\* Both image routes, serving one request.
GenerateRequest == cpc = "idle" /\ PostGenerate
EditRequest == gpc = "idle" /\ PostEdit

InitRoutes == ChainIdle /\ PollIdle /\ StreamIdle /\ EncIdle /\ ChatIdle /\ ClassifyIdle /\ WaveIdle /\ HistoryIdle

NextRoutes ==
  \/ GenerateRequest
  \/ Submit
  \/ WaitForTask
  \/ WavePoll
  \/ WaveSleep
  \/ WaveReturn
  \/ GenerateRespond
  \/ EditRequest
  \/ Download
  \/ AttemptPrimary
  \/ Redownload
  \/ AttemptFallback
  \/ EditRespond

SpecRoutes == InitRoutes /\ [][NextRoutes]_vars

====
